---- MODULE Spec2Model ----
(***************************************************************************)
(* Model of lib/cmds/pull-request.js (node-gh): the pull-request command.  *)
(* JavaScript values are tagged records, texts are sequences of one-       *)
(* character strings, so that concatenation, startsWith and replace are    *)
(* computed and not assumed.                                               *)
(***************************************************************************)
EXTENDS Integers, Sequences, FiniteSets, TLC

VARIABLES
    options,    \* the shared options bag of the PullRequest instance
    started,    \* handlers invoked by run, in invocation order
    exited,     \* the process was ended by logger.error
    pc,         \* control point of every pipeline instance
    loc,        \* closure variables of every pipeline instance
    trace,      \* per pipeline instance: the collaborator calls it made
    result,     \* per pipeline instance: what its callback received
    fn          \* argument/result cell of the pure-function specifications

vars == <<options, started, exited, pc, loc, trace, result, fn>>

----------------------------------------------------------------------------
\* Bounds of the model

\* largest pull-request number fed to the codec
MaxNum == 12

\* most open pull requests the lookup of the reconciler answers with
MaxOpenPulls == 2

\* most repositories an enumeration answers with
MaxRepos == 2

\* most action options given to one invocation
MaxRequested == 2

\* most pull requests a listing answers with
MaxPulls == 2

----------------------------------------------------------------------------
\* JavaScript values

Undefined == [t |-> "undef", n |-> 0, s |-> <<>>]
Num(k) == [t |-> "num", n |-> k, s |-> <<>>]
Str(x) == [t |-> "str", n |-> 0, s |-> x]

\* ToBoolean: undefined, 0 and "" are falsy
Truthy(v) == \/ v.t = "num" /\ v.n # 0
             \/ v.t = "str" /\ v.s # <<>>

\* a || b
JsOr(a, b) == IF Truthy(a) THEN a ELSE b

DigitChars == <<"0", "1", "2", "3", "4", "5", "6", "7", "8", "9">>

RECURSIVE NumToText(_)
\* Number.prototype.toString for a non-negative integer
NumToText(k) ==
    IF k < 10 THEN <<DigitChars[k + 1]>>
    ELSE NumToText(k \div 10) \o <<DigitChars[(k % 10) + 1]>>

\* ToString, as string concatenation applies it
ToText(v) ==
    CASE v.t = "num" -> NumToText(v.n)
      [] v.t = "str" -> v.s
      [] OTHER -> <<"u", "n", "d", "e", "f", "i", "n", "e", "d">>

\* a + b where a is a string
JsConcat(a, b) == Str(ToText(a) \o ToText(b))

IsDigit(c) == \E i \in 1..10 : DigitChars[i] = c

DigitVal(c) == (CHOOSE i \in 1..10 : DigitChars[i] = c) - 1

RECURSIVE TextToNum(_)
\* ToNumber of a text of decimal digits ("" is 0)
TextToNum(x) ==
    IF x = <<>> THEN 0
    ELSE 10 * TextToNum(SubSeq(x, 1, Len(x) - 1)) + DigitVal(x[Len(x)])

\* a == b (abstract equality) for the value kinds of this model; a text that
\* is not a decimal numeral converts to NaN, which equals nothing
JsLooseEq(a, b) ==
    CASE a.t = b.t -> a = b
      [] a.t = "str" /\ b.t = "num" ->
            (\A i \in 1..Len(a.s) : IsDigit(a.s[i])) /\ TextToNum(a.s) = b.n
      [] a.t = "num" /\ b.t = "str" ->
            (\A i \in 1..Len(b.s) : IsDigit(b.s[i])) /\ TextToNum(b.s) = a.n
      [] OTHER -> FALSE

\* _.startsWith(x, p) on texts
StartsWith(x, p) == Len(p) <= Len(x) /\ SubSeq(x, 1, Len(p)) = p

\* String.prototype.replace(p, '') with a string pattern: the first
\* occurrence of p is removed
ReplaceFirstWithEmpty(x, p) ==
    LET hits == {i \in 1..(Len(x) - Len(p) + 1) : SubSeq(x, i, i + Len(p) - 1) = p}
    IN  IF hits = {} THEN x
        ELSE LET i == CHOOSE j \in hits : \A k \in hits : j <= k
             IN  SubSeq(x, 1, i - 1) \o SubSeq(x, i + Len(p), Len(x))

----------------------------------------------------------------------------
\* BranchIdentifierCodec

\* config.pull_branch_name_prefix values the model is run with
Prefixes == {<<>>, <<"p">>, <<"p", "r", "-">>, <<"1">>}

getBranchNameFromPullNumber_Reversed(prefix, number) ==
    IF Truthy(number) THEN JsConcat(number, Str(prefix)) ELSE Undefined

getBranchNameFromPullNumber_(prefix, number) ==
    IF Truthy(number) THEN JsConcat(Str(prefix), number) ELSE Undefined

getPullRequestNumberFromBranch_(currentBranch, prefix) ==
    IF Truthy(currentBranch) /\ StartsWith(ToText(currentBranch), prefix)
    THEN Str(ReplaceFirstWithEmpty(ToText(currentBranch), prefix))
    ELSE Undefined

----------------------------------------------------------------------------
\* Configuration (base.getConfig()) and the fixed context of an invocation

\* config.pull_branch_name_prefix of the invocations
ConfigPrefix == <<"p", "r", "-">>

\* config.default_branch
DefaultBranch == Str(<<"m", "a", "s", "t", "e", "r">>)

\* a symbol (remote name, login, url, ...) as a value of the traces
Sym(x) == [t |-> "sym", n |-> 0, s |-> <<x>>]

\* config.default_remote
DefaultRemote == Sym("origin")

\* options.user and options.repo, set by the command runner
LocalUser == "me"

LocalRepo == "repo"

----------------------------------------------------------------------------
\* Errors and pull requests as the remote API reports them

NoErr == [code |-> 0, from |-> "none"]

Err(code, from) == [code |-> code, from |-> from]

IsErr(e) == e # NoErr

\* the value of a callback's absent data argument; every field of a pull
\* request is a JavaScript value
NoPull == [number |-> Undefined, title |-> Undefined, body |-> Undefined,
           baseRef |-> Undefined, baseSha |-> Undefined, baseUser |-> Undefined,
           headRef |-> Undefined, headSha |-> Undefined, headUser |-> Undefined,
           author |-> Undefined, sshUrl |-> Undefined]

----------------------------------------------------------------------------
\* Pipeline instances

\* handlers wrapped by hooks.invoke
Hooked == {"close", "fetch", "merge", "fwd", "open", "submit"}

Handlers == Hooked \cup {"comment", "info", "list"}

\* list pipelines, one per listed repository
ListIds == <<"list1", "list2", "list3", "list4">>

\* callbacks whose arguments the model records: the handlers' own, the ones
\* forward passes to fetch and submit, and list's per repository
CallIds == Handlers \cup {"fwd.fetch", "fwd.submit"} \cup {ListIds[i] : i \in 1..Len(ListIds)}

Insts == Handlers \cup {"run"} \cup {ListIds[i] : i \in 1..Len(ListIds)}

\* calls: how often the callback was called; after: how often the handler
\* called afterHooksCallback
NoResult == [calls |-> 0, err |-> NoErr, pull |-> NoPull, after |-> 0]

\* a call of a collaborator: git (working tree), api (remote), ui (browser)
\* ok is the outcome of a git operation (TRUE for the other kinds)
Ev(kind, op, args, ok) == [kind |-> kind, op |-> op, args |-> args, ok |-> ok]

Git(op, args, ok) == Ev("git", op, args, ok)

Api(op, args) == Ev("api", op, args, TRUE)

GitEvents(tr) == SelectSeq(tr, LAMBDA e : e.kind = "git")

ApiEvents(tr) == SelectSeq(tr, LAMBDA e : e.kind = "api")

----------------------------------------------------------------------------
\* run: resolution (lines 142-149)

ResolveKeepsBranchNumber(o) ==
    LET num == JsOr(getPullRequestNumberFromBranch_(o.currentBranch, ConfigPrefix),
                    o.number)
    IN  [o EXCEPT !.number = num,
                  !.pullBranch = getBranchNameFromPullNumber_(ConfigPrefix, num)]

Resolve(o) ==
    LET num == JsOr(o.number,
                    getPullRequestNumberFromBranch_(o.currentBranch, ConfigPrefix))
    IN  [o EXCEPT !.number = num,
                  !.pullBranch = getBranchNameFromPullNumber_(ConfigPrefix, num)]

\* run: the guard of the "requires an issue number" error (line 151)
NeedsNumberIgnoresMerge(o) == ~Truthy(o.pullBranch) /\ (o.close \/ o.fetch)

NeedsNumber(o) == ~Truthy(o.pullBranch) /\ (o.close \/ o.fetch \/ o.merge)

\* run: options.branch default (lines 159-161)
DefaultTheBranch(o) ==
    IF ~o.list THEN [o EXCEPT !.branch = JsOr(o.branch, DefaultBranch)] ELSE o

\* run: options.fwd and options.submit defaults (lines 177-179, 197-199)
DefaultTheTargets(o) ==
    [o EXCEPT !.fwd = IF o.fwd = Str(<<>>) THEN o.defaultForwarder ELSE o.fwd,
              !.submit = IF o.submit = Str(<<>>) THEN o.defaultReviewer ELSE o.submit]

One(b, h) == IF b THEN <<h>> ELSE <<>>

\* run: the handlers it invokes, in the order of its if statements, with the
\* fetch and merge branches exchanged
DispatchMergeFirst(o) ==
    One(o.close, "close") \o One(o.comment, "comment")
    \o (IF o.merge \/ o.rebase THEN <<"merge">> ELSE One(o.fetch, "fetch"))
    \o One(Truthy(o.fwd), "fwd") \o One(o.info, "info") \o One(o.list, "list")
    \o One(o.open, "open") \o One(Truthy(o.submit), "submit")

\* run: the handlers it invokes, in the order of its if statements
\* (lines 163-203); o is the options bag with the targets defaulted
Dispatch(o) ==
    One(o.close, "close") \o One(o.comment, "comment")
    \o (IF o.fetch THEN <<"fetch">> ELSE One(o.merge \/ o.rebase, "merge"))
    \o One(Truthy(o.fwd), "fwd") \o One(o.info, "info") \o One(o.list, "list")
    \o One(o.open, "open") \o One(Truthy(o.submit), "submit")

InSeq(x, sq) == \E i \in 1..Len(sq) : sq[i] = x

----------------------------------------------------------------------------
\* The state after construction: the options the command runner passes

NoCell == [name |-> "none", prefix |-> <<>>, arg |-> Undefined,
           mid |-> Undefined, res |-> Undefined, step |-> 0]

\* looked: the answer the reconciler's lookup got
NoLoc == [type |-> "none", user |-> Undefined, pullBranch |-> Undefined,
          asked |-> Undefined,
          origErr |-> NoErr, pull |-> NoPull,
          looked |-> [err |-> NoErr, pulls |-> <<>>]]

BaseOptions ==
    [number |-> Undefined, pullBranch |-> Undefined, currentBranch |-> Undefined,
     branch |-> Undefined, state |-> "undefined", user |-> LocalUser, repo |-> LocalRepo,
     browser |-> FALSE, close |-> FALSE, comment |-> FALSE, fetch |-> FALSE,
     merge |-> FALSE, rebase |-> FALSE, info |-> FALSE, list |-> FALSE,
     open |-> FALSE, fwd |-> Undefined, submit |-> Undefined,
     title |-> Undefined, description |-> Undefined, issue |-> Undefined,
     all |-> FALSE, org |-> Undefined, me |-> FALSE,
     submittedUser |-> Undefined, submittedPullNumber |-> Undefined,
     submittedPull |-> Undefined, forwardedPull |-> Undefined,
     currentSHA |-> Undefined, changes |-> Undefined, pullHeadSHA |-> Undefined,
     sort |-> "undefined", direction |-> "undefined",
     \* config.default_pr_forwarder and config.default_pr_reviewer
     defaultForwarder |-> Str(<<>>), defaultReviewer |-> Str(<<>>),
     \* config.replace: the replacement rules, in order
     replace |-> <<>>]

Flags == {"browser", "close", "comment", "fetch", "merge", "rebase", "info",
          "list", "open"}

WithFlags(o, fs) ==
    [o EXCEPT !.browser = "browser" \in fs, !.close = "close" \in fs,
              !.comment = "comment" \in fs, !.fetch = "fetch" \in fs,
              !.merge = "merge" \in fs, !.rebase = "rebase" \in fs,
              !.info = "info" \in fs, !.list = "list" \in fs,
              !.open = "open" \in fs]

----------------------------------------------------------------------------
\* Collaborators

\* logger.error ends the process (lib/logger.js): nothing runs after it
LoggerError == exited' = TRUE

\* git.countUserAdjacentCommits()
UserAdjacentCommits == Num(1)

\* What the collaborators may answer in a specification:
\*   git     the outcomes of a git operation (it returns whether it worked
\*           or not, and the caller goes on either way)
\*   titles, bodies  those of the pull requests pullRequests.get answers with
\*           (a pull request of the host has a title that is not empty; its
\*           body may be missing)
\*   misses  which of the five compared properties an open pull request of
\*           the reconciler's lookup may differ in (0: none)
\*   many    whether the lookup answers with up to MaxOpenPulls pull
\*           requests or with at most one
\*   states  the combined statuses
\*   codes   the status codes of failed requests
RichEnv ==
    [git |-> BOOLEAN, codes |-> {404, 500},
     titles |-> {Str(<<"T">>), Str(<<"U">>)}, bodies |-> {Str(<<"B">>), Undefined},
     misses |-> 0..5, many |-> TRUE,
     states |-> {Sym("success"), Sym("failure"), Sym("pending")}]

PlainEnv ==
    [git |-> {TRUE}, codes |-> {500},
     titles |-> {Str(<<"T">>)}, bodies |-> {Str(<<"B">>)},
     misses |-> {0}, many |-> FALSE,
     states |-> {Sym("success")}]

\* git.getLastCommitSHA()
LastCommitSHA == Sym("sha")

\* git.getLastCommitMessage(branch)
LastCommitMessage == Str(<<"last commit message">>)

\* the pull requests pullRequests.get answers with when asked for number
GetAnswers(E, number) ==
    {[NoPull EXCEPT !.number = number, !.title = ti, !.body = bo,
                    !.baseRef = Str(<<"d", "e", "v">>), !.headRef = Str(<<"f", "i", "x">>),
                    !.author = Str(<<"alice">>), !.sshUrl = Sym("git@host:fork")] :
        ti \in E.titles, bo \in E.bodies}

\* the errors a request ends with
ApiErrors(E, from) == {Err(code, from) : code \in E.codes}

Emit(i, evs) == [trace EXCEPT ![i] = @ \o evs]

Called(k, e, p) == [result EXCEPT ![k].calls = @ + 1, ![k].err = e, ![k].pull = p]

----------------------------------------------------------------------------
\* getPullRequest_ (lines 407-419): the request it sends

getPullRequest_(o) == Api("pullRequests.get", <<o.number, Sym(o.repo), Sym(o.user)>>)

RECURSIVE ReplaceAll(_, _, _)
\* every occurrence of the character from in the text x replaced by to
ReplaceAll(x, from, to) ==
    IF x = <<>> THEN <<>>
    ELSE (IF Head(x) = from THEN to ELSE <<Head(x)>>) \o ReplaceAll(Tail(x), from, to)

RECURSIVE applyReplacements(_, _)
\* logger.applyReplacements(output, replaceMap): every rule applied in turn
\* to the whole text
applyReplacements(output, replaceMap) ==
    IF replaceMap = <<>> THEN output
    ELSE applyReplacements(ReplaceAll(output, Head(replaceMap).from, Head(replaceMap).to),
                           Tail(replaceMap))

\* updatePullRequest_ with the replacement rules applied to the title too
updatePullRequest_ReplacesTitle(o, title, body, state) ==
    Api("pullRequests.update",
        <<IF Truthy(body) THEN Str(applyReplacements(body.s, o.replace)) ELSE body,
          o.number, Sym(o.repo), Sym(state),
          IF Truthy(title) THEN Str(applyReplacements(title.s, o.replace)) ELSE title,
          Sym(o.user)>>)

\* updatePullRequest_ (lines 808-827): logger.applyReplacements is applied
\* to a truthy body
updatePullRequest_(o, title, body, state) ==
    Api("pullRequests.update",
        <<IF Truthy(body) THEN Str(applyReplacements(body.s, o.replace)) ELSE body,
          o.number, Sym(o.repo), Sym(state), title, Sym(o.user)>>)

\* setMergeCommentRequiredOptions_ (lines 723-737), changes being what
\* git.countUserAdjacentCommits() returned
setMergeCommentRequiredOptions_(o, changes) ==
    [o EXCEPT !.currentSHA = LastCommitSHA,
              !.changes = IF changes.n > 0 THEN changes ELSE @,
              !.pullHeadSHA = JsConcat(Str(LastCommitSHA.s \o <<"~">>), changes)]

----------------------------------------------------------------------------
\* merge (lines 695-709): the working-tree operations, oks their outcomes

mergeOpsPushFirst(o, oks) ==
    <<Git("checkout", <<o.branch>>, oks[1]),
      Git("push", <<DefaultRemote, o.branch>>, oks[2]),
      Git(IF o.rebase THEN "rebase" ELSE "merge", <<o.pullBranch>>, oks[3]),
      Git("deleteBranch", <<o.pullBranch>>, oks[4])>>

mergeOps(o, oks) ==
    <<Git("checkout", <<o.branch>>, oks[1]),
      Git(IF o.rebase THEN "rebase" ELSE "merge", <<o.pullBranch>>, oks[2]),
      Git("push", <<DefaultRemote, o.branch>>, oks[3]),
      Git("deleteBranch", <<o.pullBranch>>, oks[4])>>

\* _mergeHandler's wrapped function (lines 878-893)
MergeBody(E) ==
    /\ ~exited /\ pc["merge"] = "prehook"
    /\ \E oks \in [1..4 -> E.git] :
          trace' = Emit("merge", mergeOps(options, oks))
    /\ options' = setMergeCommentRequiredOptions_(options, UserAdjacentCommits)
    /\ result' = [result EXCEPT !["merge"].calls = @ + 1, !["merge"].after = @ + 1]
    /\ pc' = [pc EXCEPT !["merge"] = "done"]
    /\ UNCHANGED <<started, exited, loc, fn>>

----------------------------------------------------------------------------
\* fetch (lines 331-354), called by _fetchHandler and by forward

\* _fetchHandler's choice of the fetch type (lines 832-838)
fetchTypeRebaseFirst(o) ==
    IF o.rebase THEN "rebase" ELSE IF o.merge THEN "merge" ELSE "checkout"

fetchType(o) ==
    IF o.merge THEN "merge" ELSE IF o.rebase THEN "rebase" ELSE "checkout"

\* the working-tree operations of a fetch that got its pull request
fetchOpsAlwaysFollowUp(o, type, pull, oks) ==
    <<Git("fetch", <<pull.sshUrl, pull.headRef, o.pullBranch>>, oks[1]),
      Git(IF type = "silent" THEN "checkout" ELSE type, <<o.pullBranch>>, oks[2])>>

fetchOps(o, type, pull, oks) ==
    <<Git("fetch", <<pull.sshUrl, pull.headRef, o.pullBranch>>, oks[1])>>
    \o (IF type # "silent" THEN <<Git(type, <<o.pullBranch>>, oks[2])>> ELSE <<>>)

\* the working-tree operations of a fetch whose retrieval failed (lines 338-341)
fetchOpsOnErrorStillFetches(o) == <<Git("fetch", <<Undefined, Undefined, o.pullBranch>>, FALSE)>>

fetchOpsOnError(o) == <<>>

\* _fetchHandler's wrapped function up to the request (lines 840-862)
FetchBody ==
    /\ ~exited /\ pc["fetch"] = "prehook"
    /\ loc' = [loc EXCEPT !["fetch"].type = fetchType(options),
                          !["fetch"].asked = options.number]
    /\ trace' = Emit("fetch", <<getPullRequest_(options)>>)
    /\ pc' = [pc EXCEPT !["fetch"] = "fetch_get"]
    /\ UNCHANGED <<options, started, exited, result, fn>>

\* the retrieval fails: fetch reports the error, the handler ends the process
FetchGetFails(E) ==
    /\ ~exited /\ pc["fetch"] = "fetch_get"
    /\ \E e \in ApiErrors(E, "pullRequests.get") :
          result' = Called("fetch", e, NoPull)
    /\ trace' = Emit("fetch", fetchOpsOnError(options))
    /\ LoggerError
    /\ pc' = [pc EXCEPT !["fetch"] = "failed"]
    /\ UNCHANGED <<options, started, loc, fn>>

\* the retrieval succeeds: fetch, follow-up, callback, afterHooksCallback
FetchGetSucceeds(E) ==
    /\ ~exited /\ pc["fetch"] = "fetch_get"
    /\ \E pull \in GetAnswers(E, loc["fetch"].asked), oks \in [1..2 -> E.git] :
          /\ trace' = Emit("fetch", fetchOps(options, loc["fetch"].type, pull, oks))
          /\ result' = [Called("fetch", NoErr, pull) EXCEPT !["fetch"].after = @ + 1]
    /\ pc' = [pc EXCEPT !["fetch"] = "done"]
    /\ UNCHANGED <<options, started, exited, loc, fn>>

----------------------------------------------------------------------------
\* submit (lines 760-806) and checkPullRequestIntegrity_ (lines 298-329),
\* called by _submitHandler and by forward

\* the request of submit's third operation (lines 780-796)
createRequest(o, user, pullBranch) ==
    LET head == JsConcat(Str(<<o.user, ":">>), pullBranch)
    IN  IF Truthy(o.issue)
        THEN Api("pullRequests.createFromIssue",
                 <<o.branch, head, Sym(o.repo), user, o.issue>>)
        ELSE Api("pullRequests.create",
                 <<o.branch, head, Sym(o.repo), user, o.description, o.title>>)

\* submit's operations with the push after the create request
submitStartPushLast(o, user, ok) ==
    LET pullBranch == JsOr(o.pullBranch, o.currentBranch)
        o2 == IF ~Truthy(o.title) THEN [o EXCEPT !.title = LastCommitMessage] ELSE o
    IN  [o |-> o2,
         evs |-> (IF ~Truthy(o.title)
                  THEN <<Ev("gitq", "getLastCommitMessage", <<pullBranch>>, TRUE)>>
                  ELSE <<>>)
                 \o <<createRequest(o2, user, pullBranch)>>
                 \o <<Git("push", <<DefaultRemote, pullBranch>>, ok)>>]

\* submit's three operations, which async.series runs in one turn: the
\* options they leave and the calls they make (ok: the outcome of the push)
submitStart(o, user, ok) ==
    LET pullBranch == JsOr(o.pullBranch, o.currentBranch)
        o2 == IF ~Truthy(o.title) THEN [o EXCEPT !.title = LastCommitMessage] ELSE o
    IN  [o |-> o2,
         evs |-> <<Git("push", <<DefaultRemote, pullBranch>>, ok)>>
                 \o (IF ~Truthy(o.title)
                     THEN <<Ev("gitq", "getLastCommitMessage", <<pullBranch>>, TRUE)>>
                     ELSE <<>>)
                 \o <<createRequest(o2, user, pullBranch)>>]

\* the request of checkPullRequestIntegrity_ (lines 304-310)
integrityRequest(o, user) ==
    Api("pullRequests.getAll", <<user, Sym(o.repo), Sym("open")>>)

\* the condition of lines 313-319
integrityMatch(o, user, data) ==
    /\ data.baseRef = o.branch
    /\ data.headRef = o.currentBranch
    /\ data.baseSha = data.headSha
    /\ data.baseUser = user
    /\ data.headUser = Str(<<o.user>>)

SetMax(S) == CHOOSE x \in S : \A y \in S : y <= x

\* what checkPullRequestIntegrity_ passes to opt_callback, with the error of
\* the lookup passed on in place of the original one
checkPullRequestIntegrity_LookupError(originalError, o, user, err, pulls) ==
    LET hits == {i \in 1..Len(pulls) : integrityMatch(o, user, pulls[i])}
    IN  IF IsErr(err) THEN [err |-> err, pull |-> NoPull]
        ELSE IF hits = {} THEN [err |-> originalError, pull |-> NoPull]
        ELSE [err |-> NoErr, pull |-> pulls[SetMax(hits)]]

\* what checkPullRequestIntegrity_ passes to opt_callback, with a match
\* that leaves the original error in place
checkPullRequestIntegrity_KeepsError(originalError, o, user, err, pulls) ==
    LET hits == {i \in 1..Len(pulls) : integrityMatch(o, user, pulls[i])}
    IN  IF IsErr(err) \/ hits = {} THEN [err |-> originalError, pull |-> NoPull]
        ELSE [err |-> originalError, pull |-> pulls[SetMax(hits)]]

\* what checkPullRequestIntegrity_ passes to opt_callback (lines 310-328):
\* forEach goes through every pull request, so the last match is kept
checkPullRequestIntegrity_(originalError, o, user, err, pulls) ==
    LET hits == {i \in 1..Len(pulls) : integrityMatch(o, user, pulls[i])}
    IN  IF IsErr(err) \/ hits = {} THEN [err |-> originalError, pull |-> NoPull]
        ELSE [err |-> NoErr, pull |-> pulls[SetMax(hits)]]

\* the pull request a successful create answers with
CreatedPull ==
    [NoPull EXCEPT !.number = Num(20), !.title = Str(<<"T">>)]

\* a branch name or login as the remote reports it: the local one when
\* there is one, a stand-in otherwise
Remote(v, standin) == IF v.t = "str" /\ v.s # <<>> THEN v ELSE standin

Elsewhere == Str(<<"elsewhere">>)

\* the open pull requests the lookup of the reconciler can answer with,
\* relative to the attempted submit: every one of the five compared
\* properties agrees with it, or exactly one (miss) differs
OpenPulls(E, o, user, k) ==
    {[NoPull EXCEPT
         !.number = Num(10 + k),
         !.baseRef = IF miss = 1 THEN Elsewhere ELSE Remote(o.branch, DefaultBranch),
         !.headRef = IF miss = 2 THEN Elsewhere
                     ELSE Remote(o.currentBranch, Str(<<"f", "i", "x">>)),
         !.baseSha = Sym("a"),
         !.headSha = IF miss = 3 THEN Sym("b") ELSE Sym("a"),
         !.baseUser = IF miss = 4 THEN Elsewhere ELSE user,
         !.headUser = IF miss = 5 THEN Elsewhere ELSE Str(<<o.user>>)] :
        miss \in E.misses}

RECURSIVE OpenPullLists(_, _, _, _)
\* the lists of n open pull requests, numbered 11 to 10 + n
OpenPullLists(E, o, user, n) ==
    IF n = 0 THEN {<<>>}
    ELSE {Append(l, p) : l \in OpenPullLists(E, o, user, n - 1),
                         p \in OpenPulls(E, o, user, n)}

\* the callers of submit: what they do with (err, pull)
SubmitReturns(c, o, e, p) ==
    IF c = "submit"
    THEN \* _submitHandler's callback (lines 1051-1069): logger.error unless
         \* parsing err.message throws
         IF IsErr(e)
         THEN /\ result' = Called("submit", e, p)
              /\ \E fatal \in BOOLEAN : exited' = fatal
              /\ options' = o
              /\ pc' = [pc EXCEPT ![c] = "failed"]
         ELSE /\ result' = [Called("submit", e, p) EXCEPT !["submit"].after = @ + 1]
              /\ options' = setMergeCommentRequiredOptions_(
                                [o EXCEPT !.submittedPull = p.number], UserAdjacentCommits)
              /\ exited' = exited
              /\ pc' = [pc EXCEPT ![c] = "done"]
    ELSE \* forward's second operation and _fwdHandler's callback
         \* (lines 388-398, 402-404, 908-922)
         IF IsErr(e)
         THEN /\ result' = [Called("fwd.submit", e, p) EXCEPT
                               !["fwd"].calls = @ + 1, !["fwd"].err = e]
              /\ LoggerError
              /\ options' = o
              /\ pc' = [pc EXCEPT ![c] = "failed"]
         ELSE /\ result' = [Called("fwd.submit", e, p) EXCEPT
                               !["fwd"].calls = @ + 1, !["fwd"].pull = p,
                               !["fwd"].after = @ + 1]
              /\ options' = setMergeCommentRequiredOptions_(
                                [o EXCEPT !.submittedPullNumber = p.number,
                                          !.forwardedPull = p.number],
                                UserAdjacentCommits)
              /\ exited' = exited
              /\ pc' = [pc EXCEPT ![c] = "done"]

\* _submitHandler's wrapped function up to the create request
SubmitBody(E) ==
    /\ ~exited /\ pc["submit"] = "prehook"
    /\ \E ok \in E.git :
          LET st == submitStart(options, options.submit, ok)
          IN  /\ options' = st.o
              /\ trace' = Emit("submit", st.evs)
    /\ loc' = [loc EXCEPT !["submit"].user = options.submit,
                          !["submit"].pullBranch = JsOr(options.pullBranch, options.currentBranch)]
    /\ pc' = [pc EXCEPT !["submit"] = "submit_create"]
    /\ UNCHANGED <<started, exited, result, fn>>

\* the create request succeeds (lines 802-804)
CreateSucceeds(c) ==
    /\ ~exited /\ pc[c] = "submit_create"
    /\ SubmitReturns(c, options, NoErr, CreatedPull)
    /\ UNCHANGED <<started, loc, trace, fn>>

\* the create request fails: the reconciler sends its lookup (lines 800-801)
CreateFails(E, c) ==
    /\ ~exited /\ pc[c] = "submit_create"
    /\ \E e \in {Err(422, "pullRequests.create")} \cup ApiErrors(E, "pullRequests.create") :
          loc' = [loc EXCEPT ![c].origErr = e]
    /\ trace' = Emit(c, <<integrityRequest(options, loc[c].user)>>)
    /\ pc' = [pc EXCEPT ![c] = "integrity"]
    /\ UNCHANGED <<options, started, exited, result, fn>>

\* the lookup of the reconciler is answered
IntegrityAnswered(E, c) ==
    /\ ~exited /\ pc[c] = "integrity"
    /\ \E ans \in
            {[err |-> e, pulls |-> <<>>] : e \in ApiErrors(E, "pullRequests.getAll")}
            \cup {[err |-> NoErr, pulls |-> l] :
                      l \in UNION {OpenPullLists(E, options, loc[c].user, n) :
                                       n \in 0..(IF E.many THEN MaxOpenPulls ELSE 1)}} :
          LET r == checkPullRequestIntegrity_(loc[c].origErr, options, loc[c].user,
                                              ans.err, ans.pulls)
          IN  /\ loc' = [loc EXCEPT ![c].looked = ans]
              /\ SubmitReturns(c, options, r.err, r.pull)
    /\ UNCHANGED <<started, trace, fn>>

----------------------------------------------------------------------------
\* forward (lines 369-405)

\* forward's second operation with the title left as it was
forwardCopyKeepsTitle(o, pull) ==
    [o EXCEPT !.description = pull.body, !.submittedUser = pull.author]

\* forward's second operation up to the call of submit (lines 384-386)
forwardCopy(o, pull) ==
    [o EXCEPT !.title = pull.title, !.description = pull.body,
              !.submittedUser = pull.author]

\* _fwdHandler's wrapped function up to the request of the silent fetch
FwdBody ==
    /\ ~exited /\ pc["fwd"] = "prehook"
    /\ loc' = [loc EXCEPT !["fwd"].type = "silent", !["fwd"].asked = options.number]
    /\ trace' = Emit("fwd", <<getPullRequest_(options)>>)
    /\ pc' = [pc EXCEPT !["fwd"] = "fetch_get"]
    /\ UNCHANGED <<options, started, exited, result, fn>>

\* the retrieval fails: forward's first operation passes the error on
FwdGetFails(E) ==
    /\ ~exited /\ pc["fwd"] = "fetch_get"
    /\ \E e \in ApiErrors(E, "pullRequests.get") :
          result' = [Called("fwd.fetch", e, NoPull) EXCEPT
                        !["fwd"].calls = @ + 1, !["fwd"].err = e]
    /\ trace' = Emit("fwd", fetchOpsOnError(options))
    /\ LoggerError
    /\ pc' = [pc EXCEPT !["fwd"] = "failed"]
    /\ UNCHANGED <<options, started, loc, fn>>

\* the retrieval succeeds: silent fetch, then forward's second operation
\* copies title, body and author and calls submit
FwdGetSucceeds(E) ==
    /\ ~exited /\ pc["fwd"] = "fetch_get"
    /\ \E pull \in GetAnswers(E, loc["fwd"].asked), oks \in [1..2 -> E.git], ok \in E.git :
          LET o1 == forwardCopy(options, pull)
              st == submitStart(o1, options.fwd, ok)
          IN  /\ options' = st.o
              /\ trace' = Emit("fwd", fetchOps(options, loc["fwd"].type, pull, oks) \o st.evs)
              /\ result' = Called("fwd.fetch", NoErr, pull)
              /\ loc' = [loc EXCEPT !["fwd"].user = options.fwd,
                                    !["fwd"].pull = pull,
                                    !["fwd"].pullBranch =
                                        JsOr(options.pullBranch, options.currentBranch)]
    /\ pc' = [pc EXCEPT !["fwd"] = "submit_create"]
    /\ UNCHANGED <<started, exited, fn>>

----------------------------------------------------------------------------
\* close (lines 262-296)

\* close's third operation with the deletion before the checkout
closeOpsDeleteFirst(o, pull, oks) ==
    (IF Truthy(o.pullBranch)
     THEN <<Git("deleteBranch", <<o.pullBranch>>, oks[2])>> ELSE <<>>)
    \o (IF o.pullBranch = o.currentBranch
        THEN <<Git("checkout", <<pull.baseRef>>, oks[1])>> ELSE <<>>)

\* close's third operation (lines 280-290), oks the outcomes
closeOps(o, pull, oks) ==
    (IF o.pullBranch = o.currentBranch
     THEN <<Git("checkout", <<pull.baseRef>>, oks[1])>> ELSE <<>>)
    \o (IF Truthy(o.pullBranch)
        THEN <<Git("deleteBranch", <<o.pullBranch>>, oks[2])>> ELSE <<>>)

\* _closeHandler's wrapped function up to close's first request
CloseBody ==
    /\ ~exited /\ pc["close"] = "prehook"
    /\ trace' = Emit("close", <<getPullRequest_(options)>>)
    /\ loc' = [loc EXCEPT !["close"].asked = options.number]
    /\ pc' = [pc EXCEPT !["close"] = "close_get"]
    /\ UNCHANGED <<options, started, exited, result, fn>>

\* the retrieval fails: the handler warns and returns (lines 934-937)
CloseGetFails(E) ==
    /\ ~exited /\ pc["close"] = "close_get"
    /\ \E e \in ApiErrors(E, "pullRequests.get") :
          result' = Called("close", e, NoPull)
    /\ pc' = [pc EXCEPT !["close"] = "failed"]
    /\ UNCHANGED <<options, started, exited, loc, trace, fn>>

\* the retrieval succeeds: the update to closed is sent
CloseGetSucceeds(E) ==
    /\ ~exited /\ pc["close"] = "close_get"
    /\ \E pull \in GetAnswers(E, loc["close"].asked) :
          /\ loc' = [loc EXCEPT !["close"].pull = pull]
          /\ trace' = Emit("close", <<updatePullRequest_(options, pull.title, pull.body, "closed")>>)
    /\ pc' = [pc EXCEPT !["close"] = "close_update"]
    /\ UNCHANGED <<options, started, exited, result, fn>>

CloseUpdateFails(E) ==
    /\ ~exited /\ pc["close"] = "close_update"
    /\ \E e \in ApiErrors(E, "pullRequests.update") :
          result' = Called("close", e, loc["close"].pull)
    /\ pc' = [pc EXCEPT !["close"] = "failed"]
    /\ UNCHANGED <<options, started, exited, loc, trace, fn>>

CloseUpdateSucceeds(E) ==
    /\ ~exited /\ pc["close"] = "close_update"
    /\ \E oks \in [1..2 -> E.git] :
          trace' = Emit("close", closeOps(options, loc["close"].pull, oks))
    /\ options' = setMergeCommentRequiredOptions_(options, UserAdjacentCommits)
    /\ result' = [Called("close", NoErr, loc["close"].pull) EXCEPT !["close"].after = @ + 1]
    /\ pc' = [pc EXCEPT !["close"] = "done"]
    /\ UNCHANGED <<started, exited, loc, fn>>

----------------------------------------------------------------------------
\* open (lines 711-721)

OpenBody ==
    /\ ~exited /\ pc["open"] = "prehook"
    /\ trace' = Emit("open", <<getPullRequest_(options)>>)
    /\ loc' = [loc EXCEPT !["open"].asked = options.number]
    /\ pc' = [pc EXCEPT !["open"] = "open_get"]
    /\ UNCHANGED <<options, started, exited, result, fn>>

\* the retrieval fails: the handler ends the process (lines 1033-1036)
OpenGetFails(E) ==
    /\ ~exited /\ pc["open"] = "open_get"
    /\ \E e \in ApiErrors(E, "pullRequests.get") :
          result' = Called("open", e, NoPull)
    /\ LoggerError
    /\ pc' = [pc EXCEPT !["open"] = "failed"]
    /\ UNCHANGED <<options, started, loc, trace, fn>>

OpenGetSucceeds(E) ==
    /\ ~exited /\ pc["open"] = "open_get"
    /\ \E pull \in GetAnswers(E, loc["open"].asked) :
          /\ loc' = [loc EXCEPT !["open"].pull = pull]
          /\ trace' = Emit("open", <<updatePullRequest_(options, pull.title, pull.body, "open")>>)
    /\ pc' = [pc EXCEPT !["open"] = "open_update"]
    /\ UNCHANGED <<options, started, exited, result, fn>>

\* the failed update with afterHooksCallback called all the same
OpenUpdateFailsAndSignals(E) ==
    /\ ~exited /\ pc["open"] = "open_update"
    /\ \E e \in ApiErrors(E, "pullRequests.update") :
          result' = [Called("open", e, NoPull) EXCEPT !["open"].after = @ + 1]
    /\ LoggerError
    /\ pc' = [pc EXCEPT !["open"] = "failed"]
    /\ UNCHANGED <<options, started, loc, trace, fn>>

\* the update fails: the handler ends the process (lines 1033-1036)
OpenUpdateFails(E) ==
    /\ ~exited /\ pc["open"] = "open_update"
    /\ \E e \in ApiErrors(E, "pullRequests.update") :
          result' = Called("open", e, NoPull)
    /\ LoggerError
    /\ pc' = [pc EXCEPT !["open"] = "failed"]
    /\ UNCHANGED <<options, started, loc, trace, fn>>

\* the update answers with the updated pull request
OpenUpdateSucceeds ==
    /\ ~exited /\ pc["open"] = "open_update"
    /\ result' = [Called("open", NoErr, loc["open"].pull) EXCEPT !["open"].after = @ + 1]
    /\ pc' = [pc EXCEPT !["open"] = "done"]
    /\ UNCHANGED <<options, started, exited, loc, trace, fn>>

----------------------------------------------------------------------------
\* comment (lines 946-959) and info (lines 961-971, 511-529)

\* this.issue.comment answers: an error ends the process
CommentAnswered(E) ==
    /\ ~exited /\ pc["comment"] = "comment_wait"
    /\ \/ /\ \E e \in ApiErrors(E, "issues.createComment") :
                result' = Called("comment", e, NoPull)
          /\ LoggerError
          /\ pc' = [pc EXCEPT !["comment"] = "failed"]
       \/ /\ result' = Called("comment", NoErr, NoPull)
          /\ exited' = exited
          /\ pc' = [pc EXCEPT !["comment"] = "done"]
    /\ UNCHANGED <<options, started, loc, trace, fn>>

\* get's request answers: an error is a warning, a pull request is printed
InfoAnswered(E) ==
    /\ ~exited /\ pc["info"] = "info_get"
    /\ \/ /\ \E e \in ApiErrors(E, "pullRequests.get") :
                result' = Called("info", e, NoPull)
          /\ pc' = [pc EXCEPT !["info"] = "failed"]
          /\ trace' = trace
       \/ /\ \E pull \in GetAnswers(E, loc["info"].asked) :
                /\ result' = Called("info", NoErr, pull)
                /\ trace' = Emit("info", <<Ev("ui", "printPullInfo_", <<pull.number>>, TRUE)>>)
          /\ pc' = [pc EXCEPT !["info"] = "done"]
    /\ UNCHANGED <<options, started, exited, loc, fn>>

----------------------------------------------------------------------------
\* ComplexityScorer and the sort by complexity

\* calculateComplexity_ with the weight of the review comments doubled
calculateComplexity_HeavyReviews(metrics) ==
    metrics.additions * 2 + metrics.changedFiles * 2 + metrics.comments * 2
    + metrics.deletions * 2 + metrics.reviewComments * 2

\* calculateComplexity_ (lines 244-260)
calculateComplexity_(metrics) ==
    metrics.additions * 2 + metrics.changedFiles * 2 + metrics.comments * 2
    + metrics.deletions * 2 + metrics.reviewComments * 1

\* the comparator with its results exchanged
compareComplexityExchanged(a, b) ==
    IF a.complexity.n > b.complexity.n THEN 1
    ELSE IF a.complexity.n < b.complexity.n THEN -1 ELSE 0

\* the comparator of lines 743-751
compareComplexity(a, b) ==
    IF a.complexity.n > b.complexity.n THEN -1
    ELSE IF a.complexity.n < b.complexity.n THEN 1 ELSE 0

RECURSIVE InsertSorted(_, _)
\* x put after the elements of the sorted list that do not compare after it
InsertSorted(sorted, x) ==
    IF sorted = <<>> THEN <<x>>
    ELSE IF compareComplexity(x, sorted[1]) < 0 THEN <<x>> \o sorted
    ELSE <<sorted[1]>> \o InsertSorted(Tail(sorted), x)

RECURSIVE StableSort(_)
\* Array.prototype.sort with the comparator above (a stable sort)
StableSort(data) ==
    IF data = <<>> THEN <<>>
    ELSE InsertSorted(StableSort(SubSeq(data, 1, Len(data) - 1)), data[Len(data)])

Reverse(sq) == [i \in 1..Len(sq) |-> sq[Len(sq) + 1 - i]]

\* sortPullsByComplexity_ (lines 739-758)
sortPullsByComplexity_(data, direction) ==
    IF direction = "asc" THEN Reverse(StableSort(data)) ELSE StableSort(data)

----------------------------------------------------------------------------
\* getPullsTemplateJson_ (lines 433-463)

\* a property name that is an array index: Object.keys lists these first, in
\* ascending order, and the other names after them in insertion order
IsArrayIndex(x) ==
    /\ x # <<>>
    /\ \A i \in 1..Len(x) : IsDigit(x[i])
    /\ (Len(x) = 1 \/ x[1] # "0")

RECURSIVE FirstSeen(_)
\* the distinct elements of a sequence in the order of their first occurrence
FirstSeen(sq) ==
    IF sq = <<>> THEN <<>>
    ELSE LET init == FirstSeen(SubSeq(sq, 1, Len(sq) - 1))
         IN  IF InSeq(sq[Len(sq)], init) THEN init ELSE Append(init, sq[Len(sq)])

RECURSIVE AscendingIndexes(_)
\* the array-index names of a set, ascending
AscendingIndexes(S) ==
    IF S = {} THEN <<>>
    ELSE LET m == CHOOSE x \in S : \A y \in S : TextToNum(x.s) <= TextToNum(y.s)
         IN  <<m>> \o AscendingIndexes(S \ {m})

\* Object.keys of the object the insertions of names build
ObjectKeys(names) ==
    LET seen == FirstSeen(names)
        idx == {seen[i] : i \in {j \in 1..Len(seen) : IsArrayIndex(seen[j].s)}}
    IN  AscendingIndexes(idx) \o SelectSeq(seen, LAMBDA k : ~IsArrayIndex(k.s))

getPullsTemplateJson_(pulls, branch) ==
    LET kept == SelectSeq(pulls, LAMBDA q : ~Truthy(branch) \/ branch = q.baseRef)
        keys == ObjectKeys([i \in 1..Len(kept) |-> kept[i].baseRef])
    IN  [i \in 1..Len(keys) |->
            LET members == SelectSeq(kept, LAMBDA q : q.baseRef = keys[i])
            IN  [name |-> keys[i], pulls |-> members, total |-> Len(members)]]

----------------------------------------------------------------------------
\* list (lines 531-640) and listFromAllRepositories (lines 642-670)

\* options.loggedUser
LoggedUser == Str(<<"me">>)

\* the repositories repos.getAll / repos.getFromOrg enumerate, in order
RepoNames == <<"repo", "lib", "docs", "site">>

RepoOwners == <<"me", "acme", "me", "acme">>

RepoIndex(name) == CHOOSE i \in 1..Len(RepoNames) : RepoNames[i] = name

\* answer: the error the listing request ended with, if any
NoListLoc == [user |-> "", repo |-> "", pulls |-> <<>>, idx |-> 0, answer |-> NoErr,
              asked |-> [user |-> "", repo |-> "", number |-> Undefined],
              json |-> <<>>, printed |-> FALSE, warned |-> FALSE]

\* pull request j of a listing of repository repo
ListedPull(repo, j) ==
    [number |-> Num(j),
     baseRef |-> IF j % 2 = 1 THEN DefaultBranch ELSE Str(<<"d", "e", "v">>),
     headSha |-> Sym("h"),
     author |-> IF j % 2 = 1 THEN LoggedUser ELSE Str(<<"alice">>),
     complexity |-> Undefined, combinedStatus |-> Undefined,
     listedIn |-> repo,
     detailOf |-> [user |-> "", repo |-> "", number |-> Undefined]]

\* the size metrics of the detail record of pull request number of a repository
DetailMetrics(repo, number) ==
    [additions |-> 3 * RepoIndex(repo), changedFiles |-> 1, comments |-> 0,
     deletions |-> number.n, reviewComments |-> RepoIndex(repo) + number.n]

\* filterPullsSentByMe_ (lines 356-367)
filterPullsSentByMe_(pulls) == SelectSeq(pulls, LAMBDA q : q.author = LoggedUser)

\* the payload of list's first request (lines 540-552)
listRequest(o, user, repo) ==
    Api("pullRequests.getAll",
        <<Sym(o.direction), Sym(repo),
          Sym(IF o.sort = "complexity" THEN "created" ELSE o.sort),
          Sym(o.state), Sym(user)>>)

\* the request of a status operation (lines 598-604)
statusRequest(user, repo, pull) ==
    Api("statuses.getCombined", <<Sym(repo), Sym(user), pull.headSha>>)

\* the end of list with a listing printed whatever the number of pull requests
ListFinishAlwaysPrints(l, o) ==
    [pc |-> "done", o |-> o, evs |-> <<>>,
     loc |-> [l EXCEPT !.json = getPullsTemplateJson_(l.pulls, o.branch),
                       !.printed = TRUE]]

\* the end of list: getPullsTemplateJson_ and the callback of async.series
\* (lines 617-639)
ListFinish(l, o) ==
    [pc |-> "done", o |-> o, evs |-> <<>>,
     loc |-> [l EXCEPT !.json = getPullsTemplateJson_(l.pulls, o.branch),
                       !.printed = Len(l.pulls) > 0]]

\* list's third operation (lines 592-615): the first status request
ListStartStatus(l, o) ==
    IF l.pulls = <<>> THEN ListFinish(l, o)
    ELSE [pc |-> "list_status", o |-> o, loc |-> [l EXCEPT !.idx = 1],
          evs |-> <<statusRequest(l.user, l.repo, l.pulls[1])>>]

\* one operation of addComplexityParamToPulls_ up to its request
\* (lines 213-215)
ListAskDetail(l, o, i) ==
    LET o2 == [o EXCEPT !.number = l.pulls[i].number]
    IN  [pc |-> "list_detail", o |-> o2,
         loc |-> [l EXCEPT !.idx = i,
                           !.asked = [user |-> o2.user, repo |-> o2.repo,
                                      number |-> o2.number]],
         evs |-> <<getPullRequest_(o2)>>]

\* list's second operation (lines 578-590)
ListStartComplexity(l, o) ==
    IF o.sort = "complexity"
    THEN IF l.pulls = <<>>
         THEN ListStartStatus([l EXCEPT !.pulls = sortPullsByComplexity_(<<>>, o.direction)], o)
         ELSE ListAskDetail(l, o, 1)
    ELSE ListStartStatus(l, o)

\* the call of list (user, repo): its first request
ListStarted(user, repo) == [NoListLoc EXCEPT !.user = user, !.repo = repo]

\* _listHandler's defaults (lines 978-979)
ListDefaults(o) ==
    [o EXCEPT !.sort = IF @ = "undefined" THEN "created" ELSE @,
              !.direction = IF @ = "undefined" THEN "desc" ELSE @]

IsListId(i) == InSeq(i, ListIds)

\* the enumeration of listFromAllRepositories answers (lines 661-669)
ReposAnswered(E) ==
    /\ ~exited /\ pc["list"] = "repos_wait"
    /\ \/ /\ \E e \in ApiErrors(E, "repos.getAll") : result' = Called("list", e, NoPull)
          /\ LoggerError
          /\ pc' = [pc EXCEPT !["list"] = "failed"]
          /\ UNCHANGED <<loc, trace>>
       \/ /\ \E n \in 0..MaxRepos :
                /\ pc' = [i \in Insts |->
                            IF i = "list" THEN "enumerated"
                            ELSE IF \E k \in 1..n : ListIds[k] = i THEN "list_getall"
                            ELSE pc[i]]
                /\ loc' = [i \in Insts |->
                             IF \E k \in 1..n : ListIds[k] = i
                             THEN LET k == CHOOSE k \in 1..n : ListIds[k] = i
                                  IN  ListStarted(RepoOwners[k], RepoNames[k])
                             ELSE loc[i]]
                /\ trace' = [i \in Insts |->
                               IF \E k \in 1..n : ListIds[k] = i
                               THEN LET k == CHOOSE k \in 1..n : ListIds[k] = i
                                    IN  <<listRequest(options, RepoOwners[k], RepoNames[k])>>
                               ELSE trace[i]]
          /\ UNCHANGED <<exited, result>>
    /\ UNCHANGED <<options, started, fn>>

\* a step of a list pipeline l.pc -> nx, nx being what a continuation gives
ListGoes(L, nx) ==
    /\ pc' = [pc EXCEPT ![L] = nx.pc]
    /\ loc' = [loc EXCEPT ![L] = nx.loc]
    /\ options' = nx.o
    /\ trace' = Emit(L, nx.evs
                        \o IF nx.pc = "done" /\ nx.loc.printed
                           THEN <<Ev("ui", "printListing", <<Sym(nx.loc.repo)>>, TRUE)>>
                           ELSE <<>>)
    /\ result' = IF nx.pc = "done" THEN Called(L, NoErr, NoPull) ELSE result
    /\ exited' = exited

\* a list pipeline ends with an error: the callback of async.series passes
\* it to list's callback, which ends the process (lines 627-639, 992-997,
\* 1016-1021)
ListFails(L, e) ==
    /\ pc' = [pc EXCEPT ![L] = "failed"]
    /\ result' = Called(L, e, NoPull)
    /\ LoggerError
    /\ UNCHANGED <<options, trace>>

\* the test of line 567, without the test of the code
isNotFoundNever(err) == FALSE

\* the test of line 567
isNotFound(err) == IsErr(err) /\ err.code = 404

\* the listing request fails (lines 557, 567-574): not-found is a warning
\* and an empty listing, another error ends the pipeline
ListGetAllFails(L) ==
    /\ ~exited /\ pc[L] = "list_getall"
    /\ \E e \in {Err(404, "pullRequests.getAll"), Err(500, "pullRequests.getAll")} :
          LET l == [loc[L] EXCEPT !.pulls = <<>>, !.answer = e]
          IN  IF isNotFound(e)
              THEN ListGoes(L, ListStartComplexity([l EXCEPT !.warned = TRUE], options))
              ELSE /\ ListFails(L, e)
                   /\ loc' = [loc EXCEPT ![L] = l]
    /\ UNCHANGED <<started, fn>>

\* the listing request answers with n pull requests
ListGetAllSucceeds(L) ==
    /\ ~exited /\ pc[L] = "list_getall"
    /\ \E n \in 0..MaxPulls :
          LET data == [j \in 1..n |-> ListedPull(loc[L].repo, j)]
              pulls == IF options.me THEN filterPullsSentByMe_(data) ELSE data
          IN  ListGoes(L, ListStartComplexity([loc[L] EXCEPT !.pulls = pulls], options))
    /\ UNCHANGED <<started, fn>>

\* a detail request of addComplexityParamToPulls_ fails (lines 226, 231-233,
\* 585)
ListDetailFails(E, L) ==
    /\ ~exited /\ pc[L] = "list_detail"
    /\ \E e \in ApiErrors(E, "pullRequests.get") : ListFails(L, e)
    /\ UNCHANGED <<started, loc, fn>>

\* a detail request answers with the record of the pull request it asked for
ListDetailSucceeds(L) ==
    /\ ~exited /\ pc[L] = "list_detail"
    /\ LET l == loc[L]
           i == l.idx
           scored == [l EXCEPT
                        !.pulls[i].complexity =
                            Num(calculateComplexity_(DetailMetrics(l.asked.repo, l.asked.number))),
                        !.pulls[i].detailOf = l.asked]
       IN  IF i < Len(l.pulls)
           THEN ListGoes(L, ListAskDetail(scored, options, i + 1))
           ELSE ListGoes(L, ListStartStatus(
                    [scored EXCEPT !.pulls = sortPullsByComplexity_(scored.pulls, options.direction)],
                    options))
    /\ UNCHANGED <<started, fn>>

\* a status request fails: data is undefined and reading data.state throws
\* (line 605), which ends the process
ListStatusFails(L) ==
    /\ ~exited /\ pc[L] = "list_status"
    /\ pc' = [pc EXCEPT ![L] = "thrown"]
    /\ exited' = TRUE
    /\ UNCHANGED <<options, started, loc, trace, result, fn>>

\* a status request answers
ListStatusSucceeds(E, L) ==
    /\ ~exited /\ pc[L] = "list_status"
    /\ \E st \in E.states :
          LET l == [loc[L] EXCEPT !.pulls[loc[L].idx].combinedStatus = st]
              i == l.idx
          IN  IF i < Len(l.pulls)
              THEN ListGoes(L, [pc |-> "list_status", o |-> options,
                                loc |-> [l EXCEPT !.idx = i + 1],
                                evs |-> <<statusRequest(l.user, l.repo, l.pulls[i + 1])>>])
              ELSE ListGoes(L, ListFinish(l, options))
    /\ UNCHANGED <<started, fn>>

----------------------------------------------------------------------------
\* run (lines 136-204)

\* the requests and the browser call made inside run: the bodies of
\* _commentHandler, _infoHandler and _listHandler run in run's own turn
RunCalls(o, hs) ==
    [i \in Insts |->
        CASE i = "run" ->
                IF o.browser
                THEN <<Ev("ui", "openUrl", <<Sym(o.user), Sym(o.repo), o.number>>, TRUE)>>
                ELSE <<>>
          [] i = "comment" /\ InSeq("comment", hs) ->
                <<Api("issues.createComment", <<o.number, Sym(o.repo), Sym(o.user)>>)>>
          [] i = "info" /\ InSeq("info", hs) -> <<getPullRequest_(o)>>
          [] i = "list" /\ InSeq("list", hs) /\ o.all ->
                <<Api(IF Truthy(o.org) THEN "repos.getFromOrg" ELSE "repos.getAll",
                      <<Sym(o.user), o.org>>)>>
          [] i = "list1" /\ InSeq("list", hs) /\ ~o.all ->
                <<listRequest(o, o.user, o.repo)>>
          [] OTHER -> <<>>]

\* where every pipeline stands when run returns
RunPcs(o, hs) ==
    [i \in Insts |->
        CASE i = "run" -> "done"
          [] i \in Hooked /\ InSeq(i, hs) -> "prehook"
          [] i = "comment" /\ InSeq(i, hs) -> "comment_wait"
          [] i = "info" /\ InSeq(i, hs) -> "info_get"
          [] i = "list" /\ InSeq(i, hs) -> IF o.all THEN "repos_wait" ELSE "single"
          [] i = "list1" /\ InSeq("list", hs) /\ ~o.all -> "list_getall"
          [] OTHER -> "idle"]

Run ==
    /\ ~exited /\ pc["run"] = "idle"
    /\ LET o1 == [Resolve(options) EXCEPT !.state = IF @ = "undefined" THEN "open" ELSE @]
       IN  IF NeedsNumber(o1)
           THEN /\ options' = o1
                /\ LoggerError
                /\ pc' = [pc EXCEPT !["run"] = "aborted"]
                /\ UNCHANGED <<started, loc, trace, result>>
           ELSE LET o2 == DefaultTheTargets(DefaultTheBranch(o1))
                    hs == Dispatch(o2)
                    o3 == IF InSeq("list", hs) THEN ListDefaults(o2) ELSE o2
                IN  /\ options' = o3
                    /\ started' = hs
                    /\ pc' = RunPcs(o3, hs)
                    /\ trace' = RunCalls(o3, hs)
                    /\ loc' = [loc EXCEPT !["list1"] =
                                  IF InSeq("list", hs) /\ ~o3.all
                                  THEN ListStarted(o3.user, o3.repo) ELSE @,
                                          !["info"].asked = o3.number,
                                          \* the number run resolved
                                          !["run"].asked = o3.number]
                    /\ UNCHANGED <<exited, result>>
    /\ UNCHANGED fn

----------------------------------------------------------------------------
\* The invocations of the command: every set of at most MaxRequested of the
\* action options, with and without an explicit number, on several branches

ActionOptions == Flags \cup {"fwd", "submit"}

\* options that change what list does
ListOptions == {"all", "complexity", "me"}

CurrentBranches == {Str(<<"f", "i", "x">>), Str(ConfigPrefix \o <<"7">>)}

Invocation(fs, num, cur) ==
    [WithFlags(BaseOptions, fs) EXCEPT
        !.number = num, !.currentBranch = cur,
        !.fwd = IF "fwd" \in fs THEN Str(<<"bob">>) ELSE Undefined,
        !.submit = IF "submit" \in fs THEN Str(<<"bob">>) ELSE Undefined,
        !.all = "all" \in fs, !.me = "me" \in fs,
        !.sort = IF "complexity" \in fs THEN "complexity" ELSE "undefined"]

InitLocs == [i \in Insts |-> IF IsListId(i) THEN NoListLoc ELSE NoLoc]

\* the state after construction for the options o
Constructed(o) ==
    /\ options = o
    /\ started = <<>>
    /\ exited = FALSE
    /\ pc = [i \in Insts |-> "idle"]
    /\ loc = InitLocs
    /\ trace = [i \in Insts |-> <<>>]
    /\ result = [k \in CallIds |-> NoResult]
    /\ fn = NoCell

Init ==
    \E fs \in SUBSET ActionOptions, num \in {Undefined, Str(<<"9">>)},
       cur \in CurrentBranches :
       /\ Cardinality(fs) <= MaxRequested
       /\ Constructed(Invocation(fs, num, cur))

ListIdSet == {ListIds[i] : i \in 1..Len(ListIds)}

\* the steps of a listing that is not sorted by complexity
ListNext(E) ==
    \E L \in ListIdSet :
       \/ ListGetAllFails(L)
       \/ ListGetAllSucceeds(L)
       \/ ListStatusFails(L)
       \/ ListStatusSucceeds(E, L)

\* the steps of addComplexityParamToPulls_
ListDetailNext(E) ==
    \E L \in ListIdSet : ListDetailFails(E, L) \/ ListDetailSucceeds(L)

SubmitNext(E) ==
    \/ SubmitBody(E)
    \/ \E c \in {"submit", "fwd"} :
          CreateSucceeds(c) \/ CreateFails(E, c) \/ IntegrityAnswered(E, c)

FwdNext(E) == FwdBody \/ FwdGetFails(E) \/ FwdGetSucceeds(E)

FetchNext(E) == FetchBody \/ FetchGetFails(E) \/ FetchGetSucceeds(E)

CloseNext(E) ==
    \/ CloseBody \/ CloseGetFails(E) \/ CloseGetSucceeds(E)
    \/ CloseUpdateFails(E) \/ CloseUpdateSucceeds(E)

OpenNext(E) ==
    \/ OpenBody \/ OpenGetFails(E) \/ OpenGetSucceeds(E)
    \/ OpenUpdateFails(E) \/ OpenUpdateSucceeds

Next ==
    \/ Run
    \/ CloseNext(PlainEnv)
    \/ CommentAnswered(PlainEnv)
    \/ FetchNext(PlainEnv)
    \/ MergeBody(PlainEnv)
    \/ FwdNext(PlainEnv)
    \/ InfoAnswered(PlainEnv)
    \/ ListNext(PlainEnv)
    \/ OpenNext(PlainEnv)
    \/ SubmitNext(PlainEnv)

Spec == Init /\ [][Next]_vars

----------------------------------------------------------------------------
\* The resolution of run on its own: every pair of action options, explicit
\* numbers and current branches around the prefix

ResolveNumbers == {Undefined, Str(<<"9">>), Str(<<"1", "2">>)}

ResolveBranches ==
    {Undefined, Str(<<>>), Str(<<"f", "i", "x">>), Str(<<"p">>), Str(ConfigPrefix),
     Str(ConfigPrefix \o <<"7">>), Str(ConfigPrefix \o <<"1", "2">>),
     Str(<<"x">> \o ConfigPrefix \o <<"7">>), Str(ConfigPrefix \o ConfigPrefix \o <<"7">>)}

InitResolve ==
    \E fs \in SUBSET ActionOptions, num \in ResolveNumbers, cur \in ResolveBranches :
       /\ Cardinality(fs) <= MaxRequested
       /\ Constructed(Invocation(fs, num, cur))

NextResolve == Run

SpecResolve == InitResolve /\ [][NextResolve]_vars

RunStep == pc["run"] = "idle" /\ pc'["run"] # "idle"

\* the text of a branch that starts with the prefix, without the prefix
Stripped(branch) == Str(SubSeq(branch.s, Len(ConfigPrefix) + 1, Len(branch.s)))

BranchHasPrefix(branch) == branch.t = "str" /\ StartsWith(branch.s, ConfigPrefix)

\* C5 as stated: an explicit number is kept and pullBranch is prefix +
\* number; otherwise a current branch that starts with the prefix gives the
\* number (the branch without the prefix) and pullBranch equals the current
\* branch; otherwise number and pullBranch are undefined
C5_ResolutionAsStated ==
    [][RunStep =>
        IF Truthy(options.number)
        THEN /\ options'.number = options.number
             /\ options'.pullBranch = Str(ConfigPrefix \o ToText(options.number))
        ELSE IF BranchHasPrefix(options.currentBranch)
        THEN /\ options'.number = Stripped(options.currentBranch)
             /\ options'.pullBranch = options.currentBranch
        ELSE /\ options'.number = Undefined
             /\ options'.pullBranch = Undefined]_vars

\* C5 amended: as stated when the current branch is longer than the prefix;
\* a current branch that is exactly the prefix gives the empty number and an
\* undefined pullBranch
C5_Resolution ==
    [][RunStep =>
        IF Truthy(options.number)
        THEN /\ options'.number = options.number
             /\ options'.pullBranch = Str(ConfigPrefix \o ToText(options.number))
        ELSE IF BranchHasPrefix(options.currentBranch)
        THEN /\ options'.number = Stripped(options.currentBranch)
             /\ options'.pullBranch =
                   IF options.currentBranch.s = ConfigPrefix THEN Undefined
                   ELSE options.currentBranch
        ELSE /\ options'.number = Undefined
             /\ options'.pullBranch = Undefined]_vars

C5_Witness ==
    /\ pc["run"] = "done"
    /\ options.currentBranch = Str(ConfigPrefix \o <<"1", "2">>)
    /\ options.number = Str(<<"1", "2">>)
    /\ options.pullBranch = options.currentBranch

----------------------------------------------------------------------------
\* One requested action per invocation, the collaborators answering in every
\* way of RichEnv: failed and successful git operations, every error code,
\* every answer to the reconciler's lookup

SingleActions ==
    {{"close"}, {"comment"}, {"info"}, {"open"}, {"fwd"}, {"submit"},
     {"fetch"}, {"fetch", "merge"}, {"fetch", "rebase"}, {"fetch", "merge", "rebase"},
     {"merge"}, {"rebase"}, {"merge", "rebase"}}

\* what submit is given besides the target user
SubmitInputs ==
    [title : {Undefined, Str(<<"my title">>)}, issue : {Undefined, Num(3)},
     branch : {Undefined, Str(<<"d", "e", "v">>)}]

\* config.replace: no rule, or rules that rewrite the texts of RichEnv
ReplaceRules ==
    {<<>>, <<[from |-> "B", to |-> <<"b", "b">>], [from |-> "T", to |-> <<"t">>]>>}

InitOne ==
    \E fs \in SingleActions, num \in {Undefined, Str(<<"9">>)},
       cur \in CurrentBranches, in \in SubmitInputs, rules \in ReplaceRules :
       /\ (fs # {"submit"}) => (in.title = Undefined /\ in.branch = Undefined)
       /\ (fs \notin {{"submit"}, {"fwd"}}) => (in.issue = Undefined)
       /\ (fs \notin {{"close"}, {"open"}}) => (rules = <<>>)
       /\ Constructed([Invocation(fs, num, cur) EXCEPT
                          !.title = in.title, !.issue = in.issue, !.branch = in.branch,
                          !.replace = rules])

NextOne ==
    \/ Run
    \/ CloseNext(RichEnv)
    \/ CommentAnswered(RichEnv)
    \/ FetchNext(RichEnv)
    \/ MergeBody(RichEnv)
    \/ FwdNext(RichEnv)
    \/ InfoAnswered(RichEnv)
    \/ OpenNext(RichEnv)
    \/ SubmitNext(RichEnv)

SpecOne == InitOne /\ [][NextOne]_vars

----------------------------------------------------------------------------
\* Properties of submit's reconciler

SubmitCallers == {"submit", "fwd"}

SubmitKey(c) == IF c = "submit" THEN "submit" ELSE "fwd.submit"

\* the create request of caller c failed and the reconciler's lookup has
\* been answered
Reconciled(c) == pc[c] \in {"done", "failed"} /\ IsErr(loc[c].origErr)

\* the open pull request p is for the same change as the submit of caller c
SameChange(p, c) ==
    /\ p.baseRef = options.branch
    /\ p.headRef = options.currentBranch
    /\ p.baseSha = p.headSha
    /\ p.baseUser = loc[c].user
    /\ p.headUser = Str(<<options.user>>)

HasSameChange(c) ==
    /\ ~IsErr(loc[c].looked.err)
    /\ \E i \in 1..Len(loc[c].looked.pulls) : SameChange(loc[c].looked.pulls[i], c)

\* C1: when the create request fails and the lookup answers with an open
\* pull request for the same change, submit returns such a pull request and
\* no error
C1_MatchIsReturned ==
    \A c \in SubmitCallers :
       (Reconciled(c) /\ HasSameChange(c)) =>
          /\ result[SubmitKey(c)].calls = 1
          /\ result[SubmitKey(c)].err = NoErr
          /\ \E i \in 1..Len(loc[c].looked.pulls) :
                /\ SameChange(loc[c].looked.pulls[i], c)
                /\ result[SubmitKey(c)].pull = loc[c].looked.pulls[i]

C1_Witness ==
    /\ Reconciled("submit")
    /\ loc["submit"].origErr.code = 422
    /\ Len(loc["submit"].looked.pulls) = 2
    /\ SameChange(loc["submit"].looked.pulls[1], "submit")
    /\ ~SameChange(loc["submit"].looked.pulls[2], "submit")
    /\ result["submit"].pull = loc["submit"].looked.pulls[1]
    /\ result["submit"].err = NoErr
    /\ pc["submit"] = "done"

\* C2: when the create request fails and the lookup fails or answers with
\* no open pull request for the same change, submit returns the error of
\* the create request, unchanged, and no pull request
C2_OriginalErrorIsReturned ==
    \A c \in SubmitCallers :
       (Reconciled(c) /\ ~HasSameChange(c)) =>
          /\ result[SubmitKey(c)].calls = 1
          /\ result[SubmitKey(c)].err = loc[c].origErr
          /\ result[SubmitKey(c)].pull = NoPull

C2_Witness ==
    /\ Reconciled("fwd")
    /\ loc["fwd"].origErr = Err(422, "pullRequests.create")
    /\ loc["fwd"].looked.err = Err(500, "pullRequests.getAll")
    /\ result["fwd.submit"].err = Err(422, "pullRequests.create")
    /\ result["fwd.submit"].pull = NoPull

\* the calls caller c's pipeline makes in a step
New(c) == SubSeq(trace'[c], Len(trace[c]) + 1, Len(trace'[c]))

Creates == {"pullRequests.create", "pullRequests.createFromIssue"}

CountOps(tr, ops) == Len(SelectSeq(tr, LAMBDA e : e.op \in ops))

\* the step in which caller c's submit starts: the calls it makes
SubmitStarts(c) ==
    (pc[c] # "submit_create" /\ pc'[c] = "submit_create") =>
       LET sub == IF c = "fwd" THEN Tail(New(c)) ELSE New(c)
           pb == IF Truthy(options.pullBranch) THEN options.pullBranch
                 ELSE options.currentBranch
           given == IF c = "fwd" THEN result'["fwd.fetch"].pull.title ELSE options.title
           body == IF c = "fwd" THEN result'["fwd.fetch"].pull.body ELSE options.description
           target == IF c = "fwd" THEN options.fwd ELSE options.submit
           create == sub[Len(sub)]
       IN  /\ Len(sub) = (IF Truthy(given) THEN 2 ELSE 3)
           /\ sub[1].kind = "git" /\ sub[1].op = "push"
           /\ sub[1].args = <<DefaultRemote, pb>>
           /\ ~Truthy(given) =>
                 /\ sub[2].op = "getLastCommitMessage" /\ sub[2].args = <<pb>>
                 /\ options'.title = LastCommitMessage
           /\ Truthy(given) => options'.title = given
           /\ create.kind = "api"
           /\ create.args[1] = options.branch
           /\ create.args[2] = Str(<<options.user, ":">> \o pb.s)
           /\ create.args[4] = target
           /\ IF Truthy(options.issue)
              THEN /\ create.op = "pullRequests.createFromIssue"
                   /\ create.args[5] = options.issue
              ELSE /\ create.op = "pullRequests.create"
                   /\ create.args[5] = body
                   /\ create.args[6] = options'.title
           /\ result'[SubmitKey(c)].calls = 0

\* the step in which the create request of caller c is answered
CreateAnswered(c) ==
    (pc[c] = "submit_create" /\ pc'[c] # "submit_create") =>
       IF IsErr(loc'[c].origErr)
       THEN /\ pc'[c] = "integrity"
            /\ Len(New(c)) = 1
            /\ New(c)[1].op = "pullRequests.getAll"
            /\ New(c)[1].args = <<loc[c].user, Sym(options.repo), Sym("open")>>
            /\ result'[SubmitKey(c)].calls = 0
       ELSE /\ New(c) = <<>>
            /\ result'[SubmitKey(c)].calls = 1
            /\ ~IsErr(result'[SubmitKey(c)].err)

\* the step in which the lookup of caller c is answered
LookupAnswered(c) ==
    (pc[c] = "integrity" /\ pc'[c] # "integrity") =>
       /\ New(c) = <<>>
       /\ result'[SubmitKey(c)].calls = 1

\* C11: submit pushes the pull branch (pullBranch, else the current
\* branch) to the default remote first, defaults a missing title to the
\* last commit message of that branch, then issues its one create request
\* (from the issue if one is given, else from title and body); the lookup
\* of open pull requests is made only when that request has failed, and
\* before the caller gets any error
C11_SubmitSequence ==
    [][\A c \in SubmitCallers :
          /\ SubmitStarts(c)
          /\ CreateAnswered(c)
          /\ LookupAnswered(c)
          /\ CountOps(trace'[c], Creates) <= 1
          /\ CountOps(trace'[c], {"push"}) <= 1
          /\ CountOps(trace'[c], {"pullRequests.getAll"}) =
                (IF IsErr(loc'[c].origErr) THEN 1 ELSE 0)]_vars

C11_Witness ==
    /\ pc["submit"] = "failed"
    /\ Len(trace["submit"]) = 4
    /\ trace["submit"][1].op = "push"
    /\ trace["submit"][2].op = "getLastCommitMessage"
    /\ trace["submit"][3].op = "pullRequests.create"
    /\ trace["submit"][3].args[6] = LastCommitMessage
    /\ trace["submit"][4].op = "pullRequests.getAll"
    /\ result["submit"].err = loc["submit"].origErr

\* the first call of caller c's pipeline with an operation of ops
FirstOp(c, ops) == SelectSeq(trace[c], LAMBDA e : e.op \in ops)[1]

\* C25: the head branch the reconciler matches against is the branch the
\* failed submit pushed and named as head in its create request: a pull
\* request the reconciler returns has that branch as its head, also when
\* pullBranch comes from an explicit number and is not the current branch
C25_ReconcilerMatchesPushedBranch ==
    \A c \in SubmitCallers :
       (Reconciled(c) /\ result[SubmitKey(c)].pull # NoPull) =>
          LET pushed == FirstOp(c, {"push"}).args[2]
          IN  /\ pushed = loc[c].pullBranch
              /\ FirstOp(c, Creates).args[2] = Str(<<options.user, ":">> \o pushed.s)
              /\ result[SubmitKey(c)].pull.headRef = pushed

----------------------------------------------------------------------------
\* Properties of close and open

Updates == {"pullRequests.update"}

\* C12: close touches the working tree only after the update to closed
\* succeeded: while a request is outstanding and after a failed retrieval or
\* update no checkout and no deletion has happened, and the error is passed
\* to the caller; on success the base branch of the pull request is checked
\* out first exactly when the current branch is the pull branch, and the
\* pull branch is deleted exactly when one was resolved
C12_CloseTouchesTreeLast ==
    LET g == GitEvents(trace["close"])
        pull == loc["close"].pull
        delete == IF Truthy(options.pullBranch)
                  THEN <<Git("deleteBranch", <<options.pullBranch>>, g[Len(g)].ok)>>
                  ELSE <<>>
    IN  /\ (pc["close"] \in {"prehook", "close_get", "close_update"}) =>
              g = <<>> /\ result["close"].calls = 0
        /\ (pc["close"] = "failed") =>
              /\ g = <<>>
              /\ result["close"].calls = 1
              /\ IsErr(result["close"].err)
              /\ result["close"].err.from =
                    (IF pull = NoPull THEN "pullRequests.get" ELSE "pullRequests.update")
        /\ (pc["close"] = "done") =>
              /\ Len(trace["close"]) = 2 + Len(g)
              /\ trace["close"][2].op = "pullRequests.update"
              /\ trace["close"][2].args[4] = Sym("closed")
              /\ result["close"] = [calls |-> 1, err |-> NoErr, pull |-> pull, after |-> 1]
              /\ g = IF options.pullBranch = options.currentBranch
                     THEN <<Git("checkout", <<pull.baseRef>>, g[1].ok)>> \o delete
                     ELSE delete

C12_Witness ==
    /\ pc["close"] = "done"
    /\ options.pullBranch = options.currentBranch
    /\ Len(GitEvents(trace["close"])) = 2
    /\ GitEvents(trace["close"])[1].op = "checkout"
    /\ GitEvents(trace["close"])[1].args = <<Str(<<"d", "e", "v">>)>>
    /\ GitEvents(trace["close"])[2].op = "deleteBranch"

\* open's update request, body being the body it is to carry
OpenUpdate(body) ==
    LET pull == loc["open"].pull
    IN  /\ Len(trace["open"]) = 2
        /\ trace["open"][1].op = "pullRequests.get"
        /\ trace["open"][2].op = "pullRequests.update"
        /\ trace["open"][2].args =
              <<body, options.number, Sym(options.repo), Sym("open"), pull.title,
                Sym(options.user)>>

\* open before the retrieval is answered, and after it failed: no update
\* request, and the error is passed to the caller
OpenWithoutPull ==
    /\ (pc["open"] \in {"prehook", "open_get"}) => CountOps(trace["open"], Updates) = 0
    /\ (pc["open"] = "failed" /\ loc["open"].pull = NoPull) =>
          /\ CountOps(trace["open"], Updates) = 0
          /\ result["open"].calls = 1
          /\ IsErr(result["open"].err)
          /\ result["open"].err.from = "pullRequests.get"

OpenHasPull == pc["open"] \in {"open_update", "done", "failed"} /\ loc["open"].pull # NoPull

\* C13 as stated: open sends its update only after a successful retrieval,
\* with state open and the title and the body exactly as fetched; after a
\* failed retrieval it sends none and passes the error on
C13_OpenPreservesAsStated ==
    /\ OpenWithoutPull
    /\ OpenHasPull => OpenUpdate(loc["open"].pull.body)

\* C13 amended: as stated, except that the body is the fetched body with
\* the configured replacement rules applied (the fetched body itself when
\* no rule is configured or the body is empty)
C13_OpenPreserves ==
    /\ OpenWithoutPull
    /\ OpenHasPull =>
          LET body == loc["open"].pull.body
          IN  /\ OpenUpdate(IF Truthy(body)
                            THEN Str(applyReplacements(body.s, options.replace))
                            ELSE body)
              /\ (options.replace = <<>>) => OpenUpdate(body)

C13_Witness ==
    /\ pc["open"] = "done"
    /\ options.replace # <<>>
    /\ loc["open"].pull.title = Str(<<"T">>)
    /\ loc["open"].pull.body = Str(<<"B">>)
    /\ trace["open"][2].args[1] = Str(<<"b", "b">>)
    /\ trace["open"][2].args[5] = Str(<<"T">>)

----------------------------------------------------------------------------
\* Properties of run's abort and dispatch

AllTraces == [i \in Insts |-> <<>>]

\* C6: when resolution gave no number and close, fetch or merge is
\* requested, run ends with the fatal error before dispatch: no handler is
\* invoked and no request, git operation or browser call is made
C6_AbortBeforeDispatch ==
    (/\ pc["run"] # "idle"
     /\ ~Truthy(options.number)
     /\ (options.close \/ options.fetch \/ options.merge)) =>
        /\ pc["run"] = "aborted"
        /\ exited
        /\ started = <<>>
        /\ trace = AllTraces
        /\ \A h \in Handlers : pc[h] = "idle"
        /\ \A k \in CallIds : result[k] = NoResult

C6_Witness ==
    /\ pc["run"] = "aborted"
    /\ options.merge /\ options.list
    /\ ~Truthy(options.number)
    /\ started = <<>>

\* the fixed order of the actions; fetch and merge exclude each other
ActionOrder == <<"close", "comment", "fetch", "merge", "fwd", "info", "list", "open", "submit">>

Requested(h) ==
    CASE h = "close" -> options.close
      [] h = "comment" -> options.comment
      [] h = "fetch" -> options.fetch
      [] h = "merge" -> ~options.fetch /\ (options.merge \/ options.rebase)
      [] h = "fwd" -> Truthy(options.fwd)
      [] h = "info" -> options.info
      [] h = "list" -> options.list
      [] h = "open" -> options.open
      [] h = "submit" -> Truthy(options.submit)

\* every action that follows a failed one among the started ones was
\* invoked all the same
LaterStartedAfterFailure ==
    \A i, j \in 1..Len(started) :
       (i < j /\ pc[started[i]] = "failed") => pc[started[j]] # "idle"

\* C7 as stated: run starts every requested action, in the fixed order
C7_DispatchOrderAsStated ==
    (pc["run"] # "idle") =>
        /\ started = SelectSeq(ActionOrder, Requested)
        /\ LaterStartedAfterFailure

\* C7 amended: run starts every requested action, in the fixed order, a
\* later one even if an earlier one failed, unless it ended at resolution
\* for want of a number, and then it starts none
C7_DispatchOrder ==
    /\ (pc["run"] = "done") =>
          /\ started = SelectSeq(ActionOrder, Requested)
          /\ LaterStartedAfterFailure
    /\ (pc["run"] = "aborted") =>
          /\ started = <<>>
          /\ ~Truthy(options.number)
          /\ (options.close \/ options.fetch \/ options.merge)

C7_Witness ==
    /\ pc["run"] = "done"
    /\ started = <<"close", "submit">>
    /\ pc["close"] = "failed"
    /\ pc["submit"] = "done"

----------------------------------------------------------------------------
\* Properties of fetch and merge

FetchCallers == {"fetch", "fwd"}

FetchKey(c) == IF c = "fetch" THEN "fetch" ELSE "fwd.fetch"

\* the retrieval of caller c's fetch failed
RetrievalFailed(c) == pc[c] = "failed" /\ ~IsErr(loc[c].origErr)

\* C8: when the retrieval of the pull request fails, fetch passes the
\* error to its caller and performs no git operation
C8_RetrievalFailure ==
    \A c \in FetchCallers :
       RetrievalFailed(c) =>
          /\ result[FetchKey(c)].calls = 1
          /\ IsErr(result[FetchKey(c)].err)
          /\ result[FetchKey(c)].err.from = "pullRequests.get"
          /\ result[FetchKey(c)].pull = NoPull
          /\ GitEvents(trace[c]) = <<>>

C8_Witness ==
    /\ RetrievalFailed("fetch")
    /\ options.merge
    /\ result["fetch"].err = Err(404, "pullRequests.get")
    /\ trace["fetch"] = <<getPullRequest_(options)>>

\* the retrieval of caller c's fetch succeeded
Retrieved(c) == result[FetchKey(c)].calls > 0 /\ ~IsErr(result[FetchKey(c)].err)

FollowUps == {"checkout", "merge", "rebase"}

C10_MergePipeline ==
    (pc["merge"] = "done") =>
        LET g == trace["merge"]
        IN  /\ Len(g) = 4
            /\ \A i \in 1..4 : g[i].kind = "git"
            /\ g[1].op = "checkout" /\ g[1].args = <<options.branch>>
            /\ g[2].op = (IF options.rebase THEN "rebase" ELSE "merge")
            /\ g[2].args = <<options.pullBranch>>
            /\ g[3].op = "push" /\ g[3].args = <<DefaultRemote, options.branch>>
            /\ g[4].op = "deleteBranch" /\ g[4].args = <<options.pullBranch>>

C10_Witness ==
    /\ pc["merge"] = "done"
    /\ options.rebase
    /\ Len(trace["merge"]) = 4
    /\ trace["merge"][2].op = "rebase" /\ trace["merge"][2].ok
    /\ trace["merge"][3].op = "push" /\ ~trace["merge"][3].ok
    /\ trace["merge"][4].op = "deleteBranch"

\* the working-tree operations of merge
MergeOperations == {"checkout", "merge", "rebase", "push", "deleteBranch"}

\* C24: whatever the merge and rebase options are, when resolution gave no
\* number (and so no pullBranch) the merge pipeline is not started and
\* performs no checkout, merge, rebase, push or branch deletion
C24_NoMergeWithoutPullBranch ==
    (pc["run"] # "idle" /\ (~Truthy(options.number) \/ ~Truthy(options.pullBranch))) =>
        /\ pc["merge"] = "idle"
        /\ CountOps(trace["merge"], MergeOperations) = 0

----------------------------------------------------------------------------
\* Properties of forward

\* C14: forward fetches silently (no checkout, merge or rebase), and only
\* after that fetch succeeded starts a submit to the forward target with
\* the title and the body of the fetched pull request; when the retrieval
\* fails it makes no push and no create request and passes the error on
C14_ForwardSequence ==
    LET tr == trace["fwd"]
        pull == result["fwd.fetch"].pull
        creates == SelectSeq(tr, LAMBDA e : e.op \in Creates)
    IN  /\ CountOps(tr, FollowUps) = 0
        /\ (pc["fwd"] \in {"prehook", "fetch_get"}) =>
              CountOps(tr, Creates \cup {"push", "fetch"}) = 0
        /\ RetrievalFailed("fwd") =>
              /\ tr = <<getPullRequest_(options)>>
              /\ result["fwd"].calls = 1
              /\ IsErr(result["fwd"].err)
              /\ result["fwd"].err = result["fwd.fetch"].err
              /\ result["fwd.submit"].calls = 0
        /\ Retrieved("fwd") =>
              /\ tr[1].op = "pullRequests.get"
              /\ tr[2].op = "fetch"
              /\ tr[3].op = "push"
              /\ Len(creates) = 1
              /\ creates[1].args[4] = options.fwd
              /\ options.title = pull.title
              /\ options.description = pull.body
              /\ options.submittedUser = pull.author
              /\ (creates[1].op = "pullRequests.create") =>
                    creates[1].args[5] = pull.body /\ creates[1].args[6] = pull.title

C14_Witness ==
    /\ pc["fwd"] = "done"
    /\ result["fwd.fetch"].pull.title = Str(<<"U">>)
    /\ result["fwd.fetch"].pull.body = Undefined
    /\ Len(trace["fwd"]) = 4
    /\ trace["fwd"][4].op = "pullRequests.create"
    /\ trace["fwd"][4].args[4] = Str(<<"bob">>)
    /\ trace["fwd"][4].args[6] = Str(<<"U">>)

----------------------------------------------------------------------------
\* Properties of the handlers wrapped by hooks.invoke

\* the wrapped actions whose pipeline can report an error
CanFail == {"fetch", "fwd", "close", "open", "submit"}

\* the pipeline of the wrapped action h called the handler back with an error
ReportedError(h) == result[h].calls > 0 /\ IsErr(result[h].err)

\* C21: a wrapped action that can fail calls afterHooksCallback at most
\* once, and only when its pipeline has called the handler back, once, with
\* no error; when the pipeline reports an error, or has not finished,
\* afterHooksCallback has not been called
C21_CompletionSignal ==
    \A h \in CanFail :
       /\ result[h].after <= 1
       /\ (result[h].after = 1) =>
             /\ pc[h] = "done"
             /\ result[h].calls = 1
             /\ ~IsErr(result[h].err)
       /\ ReportedError(h) => (result[h].after = 0 /\ pc[h] = "failed")
       /\ (pc[h] # "done") => result[h].after = 0

C21_Witness ==
    /\ ReportedError("fwd")
    /\ Retrieved("fwd")
    /\ result["fwd.submit"].calls = 1
    /\ result["fwd"].err = result["fwd.submit"].err
    /\ result["fwd"].err = loc["fwd"].origErr
    /\ result["fwd"].after = 0

----------------------------------------------------------------------------
\* list on its own, with and without --all, --me and the sort by
\* complexity: up to MaxRepos repositories of up to MaxPulls pull requests

InitList ==
    \E fs \in SUBSET ListOptions, num \in {Undefined, Str(<<"9">>)} :
       Constructed(Invocation(fs \cup {"list"}, num, Str(<<"f", "i", "x">>)))

\* every pipeline runs beside the others: one combined status is enough
ListEnv == [RichEnv EXCEPT !.states = {Sym("success")}]

NextList ==
    \/ Run
    \/ ReposAnswered(ListEnv)
    \/ ListNext(ListEnv)
    \/ ListDetailNext(ListEnv)

SpecList == InitList /\ [][NextList]_vars

\* the listing request of pipeline L ended with not-found
NotFound(L) == IsErr(loc[L].answer) /\ loc[L].answer.code = 404

\* pipeline L waits for the answer to a request
Pending(L) == pc[L] \in {"list_getall", "list_detail", "list_status"}

\* the steps pipeline L can take
ListStep(L) ==
    \/ ListGetAllFails(L) \/ ListGetAllSucceeds(L)
    \/ ListDetailFails(ListEnv, L) \/ ListDetailSucceeds(L)
    \/ ListStatusFails(L) \/ ListStatusSucceeds(ListEnv, L)

C15_NotFoundIsEmpty ==
    \A L \in ListIdSet :
       NotFound(L) =>
          /\ pc[L] = "done"
          /\ loc[L].pulls = <<>>
          /\ loc[L].json = <<>>
          /\ ~loc[L].printed
          /\ CountOps(trace[L], {"statuses.getCombined", "pullRequests.get", "printListing"}) = 0
          /\ trace[L] = <<listRequest(options, loc[L].user, loc[L].repo)>>
          /\ result[L].calls = 1
          /\ result[L].err = NoErr

C15_Witness ==
    /\ ~options.all
    /\ options.sort = "complexity"
    /\ NotFound("list1")
    /\ pc["list1"] = "done"
    /\ result["list1"].calls = 1

\* where a pipeline waits for the answer to a remote request
Waiting ==
    {"close_get", "close_update", "fetch_get", "submit_create", "integrity",
     "open_get", "open_update", "comment_wait", "info_get", "repos_wait",
     "list_getall", "list_detail", "list_status"}

Outstanding == {i \in Insts : pc[i] \in Waiting}

StatusRequests(L) == SelectSeq(trace[L], LAMBDA e : e.op = "statuses.getCombined")

\* C16: at every moment of an invocation at most one remote request is
\* outstanding; the status requests of a listing are made one at a time in
\* list order, and the listings of listFromAllRepositories do not overlap
C16_StrictlySequenced ==
    ~exited =>
       /\ Cardinality(Outstanding) <= 1
       /\ \A L \in ListIdSet :
             /\ (pc[L] = "list_status") => Len(StatusRequests(L)) = loc[L].idx
             /\ \A k \in 1..Len(StatusRequests(L)) :
                   StatusRequests(L)[k] =
                      statusRequest(loc[L].user, loc[L].repo, loc[L].pulls[k])
       /\ \A L1, L2 \in ListIdSet : (Pending(L1) /\ Pending(L2)) => L1 = L2

\* the request of pipeline L that failed: the last one it made
FailedRequest(L) == trace[L][Len(trace[L])].op

\* the pipeline L ended with its listing, a detail or a status request failing
ListEnded(L) == pc[L] \in {"failed", "thrown"}

\* C20: when the listing request of a list pipeline fails with another
\* error than not-found, or a detail request, or a status request fails,
\* the pipeline makes no further request, prints nothing, and list's
\* callback is called with the error of that request
C20_ListErrorsArePassedOn ==
    \A L \in ListIdSet :
       ListEnded(L) =>
          /\ ~loc[L].printed
          /\ CountOps(trace[L], {"printListing"}) = 0
          /\ FailedRequest(L) \in {"pullRequests.getAll", "pullRequests.get",
                                   "statuses.getCombined"}
          /\ result[L].calls = 1
          /\ IsErr(result[L].err)
          /\ result[L].err.from = FailedRequest(L)
          /\ IsErr(loc[L].answer) => result[L].err = loc[L].answer

\* the pull request a detail request of pipeline L is to be about: pull
\* request q of the repository L lists
ListedAs(L, q) == [user |-> loc[L].user, repo |-> loc[L].repo, number |-> q.number]

DetailRequests(L) == SelectSeq(trace[L], LAMBDA e : e.op = "pullRequests.get")

\* C22: with the sort by complexity, in every listed repository, the detail
\* request for a pull request is addressed to the owner and the repository
\* being listed and to the number of that pull request, and the complexity
\* attached to a pull request is the score of its own detail record
C22_ComplexityOfSamePull ==
    \A L \in ListIdSet :
       /\ (pc[L] = "list_detail") =>
             loc[L].asked = ListedAs(L, loc[L].pulls[loc[L].idx])
       /\ \A k \in 1..Len(DetailRequests(L)) :
             /\ DetailRequests(L)[k].args[2] = Sym(loc[L].repo)
             /\ DetailRequests(L)[k].args[3] = Sym(loc[L].user)
       /\ \A i \in 1..Len(loc[L].pulls) :
             LET q == loc[L].pulls[i]
             IN  (q.complexity # Undefined) =>
                    /\ q.detailOf = ListedAs(L, q)
                    /\ q.complexity =
                          Num(calculateComplexity_(DetailMetrics(loc[L].repo, q.number)))

----------------------------------------------------------------------------
\* close and open requested together with a listing sorted by complexity:
\* the callbacks of the requests run in every order

TogetherActions == {{"close"}, {"open"}, {"close", "open"}}

InitTogether ==
    \E fs \in TogetherActions, num \in {Undefined, Str(<<"9">>)}, cur \in CurrentBranches :
       Constructed(Invocation(fs \cup {"list", "complexity"}, num, cur))

NextTogether ==
    \/ Run
    \/ CloseNext(PlainEnv)
    \/ OpenNext(PlainEnv)
    \/ ListNext(PlainEnv)
    \/ ListDetailNext(PlainEnv)

SpecTogether == InitTogether /\ [][NextTogether]_vars

UpdateRequests(h) == SelectSeq(trace[h], LAMBDA e : e.op \in Updates)

\* C23: whatever the order of the callbacks, the update request of close
\* and of open is for the number run resolved, which is the number of the
\* pull request the action fetched, also when a listing sorted by
\* complexity runs in the same invocation
C23_UpdateIsForResolvedPull ==
    \A h \in {"close", "open"} :
       \A k \in 1..Len(UpdateRequests(h)) :
          /\ UpdateRequests(h)[k].args[2] = loc["run"].asked
          /\ UpdateRequests(h)[k].args[2] = loc[h].pull.number
          /\ loc[h].pull.number = loc[h].asked

----------------------------------------------------------------------------
\* Specification of the codec: encode a number, then decode the branch name

InitCodec ==
    /\ options = BaseOptions
    /\ started = <<>>
    /\ exited = FALSE
    /\ pc = [i \in Insts |-> "idle"]
    /\ loc = InitLocs
    /\ trace = [i \in Insts |-> <<>>]
    /\ result = [k \in CallIds |-> NoResult]
    /\ \E k \in 0..MaxNum, p \in Prefixes :
          fn = [NoCell EXCEPT !.name = "codec", !.prefix = p, !.arg = Num(k)]

CodecEncode ==
    /\ fn.name = "codec" /\ fn.step = 0
    /\ fn' = [fn EXCEPT !.mid = getBranchNameFromPullNumber_(fn.prefix, fn.arg),
                        !.step = 1]
    /\ UNCHANGED <<options, started, exited, pc, loc, trace, result>>

CodecDecode ==
    /\ fn.name = "codec" /\ fn.step = 1
    /\ fn' = [fn EXCEPT !.res = getPullRequestNumberFromBranch_(fn.mid, fn.prefix),
                        !.step = 2]
    /\ UNCHANGED <<options, started, exited, pc, loc, trace, result>>

NextCodec == CodecEncode \/ CodecDecode

SpecCodec == InitCodec /\ [][NextCodec]_vars

\* C4 as stated: for every non-negative n (0 included) and prefix p,
\* decode(encode(n), p) == n
C4_RoundTripAllNonNegative ==
    (fn.name = "codec" /\ fn.step = 2) => JsLooseEq(fn.res, fn.arg)

\* C4 amended: for every positive integer n and prefix p the decoded text is
\* the decimal numeral of n, so decode(encode(n), p) == n; encode(0) is
\* undefined and decodes to undefined
C4_RoundTripPositive ==
    (fn.name = "codec" /\ fn.step = 2) =>
        IF fn.arg.n >= 1
        THEN fn.res = Str(NumToText(fn.arg.n)) /\ JsLooseEq(fn.res, fn.arg)
        ELSE fn.mid = Undefined /\ fn.res = Undefined

C4_Witness ==
    /\ fn.name = "codec" /\ fn.step = 2
    /\ fn.arg = Num(12) /\ fn.prefix = <<"p", "r", "-">>
    /\ fn.mid = Str(<<"p", "r", "-", "1", "2">>)
    /\ fn.res = Str(<<"1", "2">>)

----------------------------------------------------------------------------
\* Specifications of the pure functions of the listing: a cell holds the
\* argument and the results

\* the state in which only the cell is in use
OnlyCell(cell) ==
    /\ options = BaseOptions
    /\ started = <<>>
    /\ exited = FALSE
    /\ pc = [i \in Insts |-> "idle"]
    /\ loc = InitLocs
    /\ trace = [i \in Insts |-> <<>>]
    /\ result = [k \in CallIds |-> NoResult]
    /\ fn = cell

CellOnly == UNCHANGED <<options, started, exited, pc, loc, trace, result>>

RECURSIVE SeqsUpTo(_, _)
\* the sequences of at most n elements of S
SeqsUpTo(S, n) ==
    IF n = 0 THEN {<<>>}
    ELSE SeqsUpTo(S, n - 1) \cup {Append(q, x) : q \in [1..(n - 1) -> S], x \in S}

\* the pull requests of a listing with the scores cs, numbered in list order
Scored(cs) == [i \in 1..Len(cs) |-> [number |-> Num(i), complexity |-> Num(cs[i])]]

InitSort ==
    \E cs \in SeqsUpTo(0..(MaxPulls + 1), MaxPulls + 1) :
       OnlyCell([NoCell EXCEPT !.name = "sort", !.arg = Scored(cs)])

\* sortPullsByComplexity_ with direction desc
SortDesc ==
    /\ fn.name = "sort" /\ fn.step = 0
    /\ fn' = [fn EXCEPT !.mid = sortPullsByComplexity_(fn.arg, "desc"), !.step = 1]
    /\ CellOnly

\* sortPullsByComplexity_ of the same list with direction asc
SortAsc ==
    /\ fn.name = "sort" /\ fn.step = 1
    /\ fn' = [fn EXCEPT !.res = sortPullsByComplexity_(fn.arg, "asc"), !.step = 2]
    /\ CellOnly

NextSort == SortDesc \/ SortAsc

SpecSort == InitSort /\ [][NextSort]_vars

DistinctScores(data) ==
    \A i, j \in 1..Len(data) : i # j => data[i].complexity # data[j].complexity

IsPermutation(a, b) ==
    /\ Len(a) = Len(b)
    /\ \A i \in 1..Len(b) : Cardinality({j \in 1..Len(a) : a[j] = b[i]}) = 1

\* C17: for pull requests with pairwise distinct scores
\* sortPullsByComplexity_ with desc gives strictly decreasing scores, with
\* asc exactly the reverse of that sequence, and the result is a
\* permutation of the input
C17_SortByComplexity ==
    (fn.name = "sort" /\ fn.step = 2 /\ DistinctScores(fn.arg)) =>
        /\ IsPermutation(fn.mid, fn.arg)
        /\ IsPermutation(fn.res, fn.arg)
        /\ \A i \in 1..(Len(fn.mid) - 1) :
              fn.mid[i].complexity.n > fn.mid[i + 1].complexity.n
        /\ \A i \in 1..Len(fn.mid) : fn.res[i] = fn.mid[Len(fn.mid) + 1 - i]

C17_Witness ==
    /\ fn.name = "sort" /\ fn.step = 2
    /\ fn.arg = Scored(<<1, 3, 2>>)
    /\ fn.mid = <<fn.arg[2], fn.arg[3], fn.arg[1]>>
    /\ fn.res = <<fn.arg[1], fn.arg[3], fn.arg[2]>>

----------------------------------------------------------------------------
\* Specification of the scorer

\* the values of a metric: small ones, those of the worked example, a large one
MetricValues == {0, 1, 2, 3, 4, 10, MaxNum}

AllMetrics ==
    [additions : MetricValues, changedFiles : MetricValues, comments : MetricValues,
     deletions : MetricValues, reviewComments : MetricValues]

InitScore == \E ms \in AllMetrics : OnlyCell([NoCell EXCEPT !.name = "score", !.arg = ms])

Score ==
    /\ fn.name = "score" /\ fn.step = 0
    /\ fn' = [fn EXCEPT !.res = Num(calculateComplexity_(fn.arg)), !.step = 1]
    /\ CellOnly

NextScore == Score

SpecScore == InitScore /\ [][NextScore]_vars

ExampleMetrics ==
    [additions |-> 10, changedFiles |-> 2, comments |-> 1, deletions |-> 3,
     reviewComments |-> 4]

\* C18: calculateComplexity_ returns 2*additions + 2*changedFiles +
\* 2*comments + 2*deletions + reviewComments (36 for the metrics 10, 2, 1,
\* 3, 4), and the step that computes it leaves its argument and every other
\* part of the state as they were
C18_Score ==
    [][(fn.name = "score" /\ fn.step = 0) =>
          /\ fn'.res.t = "num"
          /\ fn'.res.n = 2 * fn.arg.additions + 2 * fn.arg.changedFiles
                         + 2 * fn.arg.comments + 2 * fn.arg.deletions
                         + fn.arg.reviewComments
          /\ (fn.arg = ExampleMetrics) => fn'.res.n = 36
          /\ fn'.arg = fn.arg
          /\ UNCHANGED <<options, started, exited, pc, loc, trace, result>>]_vars

C18_Witness ==
    /\ fn.name = "score" /\ fn.step = 1
    /\ fn.arg = ExampleMetrics
    /\ fn.res = Num(36)

----------------------------------------------------------------------------
\* Specification of the grouping by base branch

\* base branch names: two words and two numerals
BranchNames ==
    {DefaultBranch, Str(<<"d", "e", "v">>), Str(<<"7">>), Str(<<"1", "0">>)}

\* the pull requests of a listing with the base branches bs, numbered in list order
Based(bs) == [i \in 1..Len(bs) |-> [number |-> Num(i), baseRef |-> bs[i]]]

InitGroup ==
    \E bs \in SeqsUpTo(BranchNames, MaxPulls + 1),
       branch \in {Undefined, DefaultBranch, Str(<<"7">>)} :
       OnlyCell([NoCell EXCEPT !.name = "group", !.arg = Based(bs), !.mid = branch])

\* getPullsTemplateJson_ with options.branch being the cell's mid
Group ==
    /\ fn.name = "group" /\ fn.step = 0
    /\ fn' = [fn EXCEPT !.res = getPullsTemplateJson_(fn.arg, fn.mid), !.step = 1]
    /\ CellOnly

NextGroup == Group

SpecGroup == InitGroup /\ [][NextGroup]_vars

\* the position of the first pull request of the list with the base branch name
FirstIndex(pulls, name) ==
    CHOOSE i \in 1..Len(pulls) :
       /\ pulls[i].baseRef = name
       /\ \A j \in 1..(i - 1) : pulls[j].baseRef # name

\* C19: the groups of getPullsTemplateJson_ hold exactly the pull requests
\* whose base branch passes the filter, each in the one group of its base
\* branch; the groups are in the order of the first occurrence of their
\* branch in the input, the members in input order, and total is the
\* number of members
C19_GroupedInFirstSeenOrder ==
    (fn.name = "group" /\ fn.step = 1) =>
        LET passes(q) == ~Truthy(fn.mid) \/ q.baseRef = fn.mid
            groups == fn.res
        IN  /\ \A i \in 1..Len(fn.arg) :
                  Cardinality({g \in 1..Len(groups) :
                                  InSeq(fn.arg[i], groups[g].pulls)}) =
                     (IF passes(fn.arg[i]) THEN 1 ELSE 0)
            /\ \A g \in 1..Len(groups) :
                  /\ groups[g].total = Len(groups[g].pulls)
                  /\ groups[g].total >= 1
                  /\ \A m \in 1..Len(groups[g].pulls) :
                        /\ groups[g].pulls[m].baseRef = groups[g].name
                        /\ InSeq(groups[g].pulls[m], fn.arg)
                  /\ \A m, n \in 1..Len(groups[g].pulls) :
                        m < n => groups[g].pulls[m].number.n < groups[g].pulls[n].number.n
            /\ \A g, h \in 1..Len(groups) :
                  g < h => FirstIndex(fn.arg, groups[g].name) < FirstIndex(fn.arg, groups[h].name)

====
